---- MODULE Spec2Model ----
(***************************************************************************)
(* State-machine model of the WalterMart collectors:                       *)
(*   scripts/scrape_waltermart_shop_bkp.py  (paginated scraper)             *)
(*   scripts/dedup_waltermart_csv.py        (merge utility)                 *)
(*   data/scrape_waltermart_dasma.py        (primary scraper)               *)
(* Spec runs one of the three programs from its start.                     *)
(* Prices are integers in centavos; NoneNum stands for Python's None where *)
(* a number is expected.  A link is a sequence of string fragments, so     *)
(* that prefixing BASE and the startswith tests are computed, not assumed. *)
(***************************************************************************)
EXTENDS Integers, Sequences, FiniteSets, TLC

\* ------------------------------------------------------------------ bounds
\* WM_MAX_PAGES (default 50) is scaled down to keep the page window small.
MAX_PAGES == 2
\* largest --stagnant-limit tried
MaxStagnantLimit == 2
\* longest JSON array of one response
MaxItems == 2
\* most elements a locator matches on one rendered page
MaxNodes == 2

\* ------------------------------------------------------- program constants
MAX_RETRIES == 3

None == "None"
NoneNum == -1

\* ------------------------------------------------------------------ links
BASE == <<"https://www.waltermartdelivery.com.ph">>
NotAString == <<"<non-str>">>
EmptyStr == <<>>

IsStr(l) == l # NotAString
\* str.startswith on the first fragment
StartsWithSlash(l) == Len(l) > 0 /\ Head(l) \in {"/p/", "/shop/"}
StartsWithHttp(l) == Len(l) > 0 /\ Head(l) \in {"https://www.waltermartdelivery.com.ph"}
EndsWithSlash(f) == f \in {"/p/", "p/", "/shop/"}
DigitCount(f) == IF f = "12345" THEN 5 ELSE IF f = "77" THEN 2 ELSE 0

\* ------------------------------------------------------- JSON item universe
\* One element of a JSON array.  price maps the price keys present in the
\* mapping to their numeric JSON value.
Item(isdict, name, id, price, link) ==
    [isdict |-> isdict, name |-> name, id |-> id, price |-> price, link |-> link]

NoPriceKeys == [k \in {} |-> 0]
ItemA1 == Item(TRUE, "Tuna 155g", "12345", [k \in {"price"} |-> 105], <<"/p/", "12345">>)
ItemA2 == Item(TRUE, "Tuna 155g", "12345", [k \in {"price_in_cents"} |-> 9900],
               <<"https://www.waltermartdelivery.com.ph", "/p/", "12345">>)
ItemU  == Item(TRUE, "Tuna 155g", "12345", NoPriceKeys, <<"/p/", "12345">>)
ItemB  == Item(TRUE, "Spam", None, [k \in {"regular_price", "sale_price"} |->
                                        IF k = "sale_price" THEN 50 ELSE 60], EmptyStr)
ItemBad == Item(TRUE, "Milk 1L", "77", [k \in {"price"} |-> 80], NotAString)
ItemNoName == Item(TRUE, "", "9", [k \in {"price"} |-> 10], EmptyStr)
ItemNonDict == Item(FALSE, "", None, NoPriceKeys, EmptyStr)

RawItems == {ItemA1, ItemA2, ItemU, ItemB, ItemBad, ItemNoName, ItemNonDict}
\* arrays of one element hold any item, longer ones the items of LongItems
LongItems == {ItemA1, ItemBad}
ItemSeqs == {<<>>} \cup {<<x>> : x \in RawItems} \cup
            UNION {[1..n -> LongItems] : n \in 2..MaxItems}

\* A parsed JSON body: where its array sits and the array itself.
Shapes == {"top", "nested1", "nested2", "deeper"}
Payloads == [shape : {"nested1"}, items : ItemSeqs] \cup
            [shape : {"top", "nested2", "deeper"}, items : {<<ItemB>>}]

Min(S) == CHOOSE x \in S : \A y \in S : x <= y
Max(S) == CHOOSE x \in S : \A y \in S : x >= y

\* a JSON value that is not an int or a float (a string, null, a list)
NotNumeric == -3

\* a value under a key of pricing: a number, or a mapping with the children
\* amount and value, or neither
PV(num, amount, value) == [num |-> num, amount |-> amount, value |-> value]

\* the candidates of obj["pricing"] when it is a mapping: the keys current,
\* sale, regular, price; a number counts itself, a mapping its numeric
\* children amount and value (in centavos)
pricing_cands(obj) ==
    IF "pricing" \notin DOMAIN obj THEN {}
    ELSE IF ~obj.pricing.isdict THEN {}
    ELSE UNION {LET v == obj.pricing.at[k]
                IN  IF v.num # NotNumeric THEN {100 * v.num}
                    ELSE {100 * v[kk] : kk \in {c \in {"amount", "value"} : v[c] # NotNumeric}} :
                   k \in (DOMAIN obj.pricing.at) \cap {"current", "sale", "regular", "price"}}

\* the candidates under the flat keys: numeric values, the cents-scaled key
\* divided by 100 (here: every other key multiplied by 100)
flat_cands(obj, keys) ==
    {IF k = "price_in_cents" THEN obj.price[k] ELSE 100 * obj.price[k] :
        k \in {c \in (DOMAIN obj.price) \cap keys : obj.price[c] # NotNumeric}}

\* variant: the flat keys only, pricing is not looked into
_find_price_fields_flat(obj) ==
    IF ~obj.isdict THEN NoneNum
    ELSE IF flat_cands(obj, {"price", "current_price", "sale_price", "regular_price",
                             "price_in_cents", "store_price", "unit_price", "promo_price",
                             "retail", "priceMin", "priceMax"}) = {} THEN NoneNum
    ELSE Min(flat_cands(obj, {"price", "current_price", "sale_price", "regular_price",
                              "price_in_cents", "store_price", "unit_price", "promo_price",
                              "retail", "priceMin", "priceMax"}))

\* _find_price_fields: the minimum of the numeric candidates
PRICE_KEYS == {"price", "current_price", "sale_price", "regular_price", "price_in_cents",
               "store_price", "unit_price", "promo_price", "retail", "priceMin", "priceMax"}
_find_price_fields(obj) ==
    IF ~obj.isdict THEN NoneNum
    ELSE LET cands == flat_cands(obj, PRICE_KEYS) \cup pricing_cands(obj)
         IN IF cands = {} THEN NoneNum ELSE Min(cands)

\* _extract_lists: the arrays of mappings at the top level or one or two
\* levels down; a list qualifies by its first element only.
_extract_lists(data) ==
    IF data.shape = "top"
    THEN IF data.items = <<>> \/ data.items[1].isdict THEN <<data.items>> ELSE <<>>
    ELSE IF data.shape \in {"nested1", "nested2"}
    THEN IF data.items # <<>> /\ data.items[1].isdict THEN <<data.items>> ELSE <<>>
    ELSE <<>>

Product(id, name, price, url, source) ==
    [id |-> id, name |-> name, price |-> price, url |-> url, source |-> source]

Key(p) == <<p.id, p.url>>

Strip(s) == IF s = " " THEN "" ELSE s

\* ------------------------------------------------------------ response URLs
\* A URL is described by the substrings the code tests for: subs are the
\* topic keywords it contains anywhere, path the markers its path contains.
Url(name, subs, path) == [name |-> name, subs |-> subs, path |-> path]
NoUrl  == Url("None", {}, {})
UrlImg == Url("/static/logo.png", {}, {})
UrlWp  == Url("/wp-json/menus?mode=search", {"wp-json", "search"}, {})
UrlApi == Url("/api/products?page=1", {"products"}, {"/products"})

KEYWORDS == {"freshop", "ncrcloud", "wp-json", "products", "search", "browse", "catalog", "items"}
HasKeyword(u) == u.subs \cap KEYWORDS # {}
_is_products_endpoint(u) == u.path \cap {"/products", "/catalog", "/search"} # {}

NoData == [shape |-> "deeper", items |-> <<>>]
\* a response: its URL, whether its Content-Type is application/json, whether
\* resp.json() parses the body, and the parsed body
Resp(url, json_ok, data) ==
    [url |-> url, ctype_json |-> TRUE, json_ok |-> json_ok, data |-> data]
\* a body that parses, sent as text/plain
RespPlain(url, data) == [Resp(url, TRUE, data) EXCEPT !.ctype_json = FALSE]
Responses == {Resp(UrlImg, TRUE, [shape |-> "top", items |-> <<ItemB>>]),
              Resp(UrlWp, TRUE, [shape |-> "top", items |-> <<ItemB>>]),
              RespPlain(UrlWp, [shape |-> "top", items |-> <<ItemB>>])} \cup
             {Resp(u, FALSE, NoData) : u \in {UrlWp, UrlApi}} \cup
             {Resp(UrlApi, TRUE, d) : d \in Payloads}

\* ------------------------------------------------------------ DOM elements
Node(raises, name, price_txt, href) ==
    [raises |-> raises, name |-> name, price_txt |-> price_txt, href |-> href]
NodeD1 == Node(FALSE, "Tuna 155g", "P105.00", <<"/p/", "12345">>)
NodeD2 == Node(FALSE, "Tuna 155g", "P99.00",
               <<"https://www.waltermartdelivery.com.ph", "/p/", "12345">>)
NodeNoPrice == Node(FALSE, "Spam", "Sold out", EmptyStr)
NodeRaise == Node(TRUE, "", None, EmptyStr)
DomNodes == {NodeD1, NodeD2, NodeNoPrice, NodeRaise}
\* one matched element is any node, several are the nodes of LongNodes
LongNodes == {NodeD1, NodeD2}
NodeSeqs == {<<>>} \cup {<<x>> : x \in DomNodes} \cup
            UNION {[1..n -> LongNodes] : n \in 2..MaxNodes}
\* what the container query and the selectors after it match on one page
\* one element more than max_dom_nodes: the last one is past the cap
LongMatch == [k \in 1..(MaxNodes + 1) |-> IF k <= MaxNodes THEN NodeD1 ELSE NodeNoPrice]
NodeMatches == {<<ns>> : ns \in NodeSeqs} \cup
               {<< <<>>, <<NodeD1>> >>, << <<NodeRaise>>, <<NodeD2>> >>, <<LongMatch>>}

\* _norm_price on the text of a price element: strip everything but digits,
\* dots and commas, drop the commas, parse; nothing left parses to None.
_norm_price(v) ==
    CASE v = None -> NoneNum
      [] v = "P105.00" -> 10500
      [] v = "P99.00" -> 9900
      [] v = "Sold out" -> NoneNum
      [] OTHER -> NoneNum

VARIABLES
    pc,               \* position of scrape() in the paginated scraper
    args,             \* start_page, end_page, debug, stagnant_limit, max_dom_nodes, allow_no_price
    attempt,          \* store-selection attempt
    handler_on,       \* on_response registered on the page
    products, seen,   \* the collected list and its dedup-key set
    first_api_url,    \* seed endpoint
    break_reason,
    i, retries, stagnant,                      \* API page loop
    page_idx, stagnant_rounds, total_before,   \* _walk_pages
    pre_dom_total,
    escaped,          \* an exception left on_response
    written, out_csv, \* the CSV file
    html_snap,        \* waltermart_shop_last.html exists
    obs,              \* history: per dedup key, the best price among the records observed
    api_log,          \* history: per finished API page, the records it appended and how it ended
    api_contrib,      \* history: records the current API page appended so far
    sleep_for,        \* the wait before the current retry, in 1/100 s; 0 before the first
    sel,              \* the stages the current store-selection attempt went through
    api_ran           \* history: the API page loop was entered in this run

shopVars == <<pc, args, attempt, handler_on, products, seen, first_api_url, break_reason,
              i, retries, stagnant, page_idx, stagnant_rounds, total_before, pre_dom_total,
              escaped, written, out_csv, html_snap, obs, api_log, api_contrib, sleep_for, sel, api_ran>>

VARIABLES
    mpc,              \* position of the merge utility
    keep_no_price,    \* --keep-no-price
    csv_file,         \* the rows of the file at CSV_PATH
    bak_file,         \* the rows of the file at BAK_PATH
    rows, ridx,       \* the rows read and the loop position
    best, best_keys,  \* canonical row per key, and the keys in insertion order
    all_ids, all_prices, counts,
    runs,             \* how often the utility has been started on the file
    file_in           \* history: the rows the current run read

mergeVars == <<mpc, keep_no_price, csv_file, bak_file, rows, ridx, best, best_keys,
               all_ids, all_prices, counts, runs, file_in>>

VARIABLES
    d_pc,             \* position of scrape() in the primary scraper
    d_cat, d_cand,    \* category and candidate URL being visited
    d_listening,      \* _capture_response attached to the page
    d_rows, d_seen,   \* rows and seen of scrape()
    d_escaped,        \* an exception left _capture_response
    d_swallowed,      \* history: _capture_response caught an exception
    d_written, d_csv, \* waltermart_dasma_sample.csv
    d_db,             \* the rows of table waltermart_dasma in pricecheck.duckdb
    d_inserts,        \* history: INSERT statements this run executed
    d_snapshot        \* waltermart_last_page.html exists

dasmaVars == <<d_pc, d_cat, d_cand, d_listening, d_rows, d_seen, d_escaped,
               d_swallowed, d_written, d_csv, d_db, d_inserts, d_snapshot>>

VARIABLES
    c_pc,             \* "idle", or "calls" while the functions are called directly
    c_call,           \* the function called last
    c_args,           \* its arguments
    c_result          \* what it returned, Raised when it raised

calcVars == <<c_pc, c_call, c_args, c_result>>

VARIABLES
    s_pc,             \* position of a scroll loop run on its own
    s_who,            \* "walk": the loop of _walk_pages, "auto": the auto-scroll of the primary scraper
    cycle,            \* cycles gone through
    last_h,           \* last_h of the loop
    stable            \* stable of _walk_pages; for the auto-scroll, which keeps no
                      \* counter, history: the cycles in a row without growth

scrollVars == <<s_pc, s_who, cycle, last_h, stable>>

VARIABLES
    v_pc,             \* position of the product-page fallback run on its own
    v_found_any,      \* found_any after the card selectors
    v_links,          \* len(product_links)
    v_visits,         \* product pages gone to so far
    v_open            \* auxiliary pages open (ctx.new_page() not yet closed)

visitVars == <<v_pc, v_found_any, v_links, v_visits, v_open>>

VARIABLES
    d_pending         \* responses whose _capture_response awaits response.json()

asyncVars == <<d_pending>>

\* the loops run on their own, and the suspended callbacks
extraVars == <<scrollVars, visitVars, asyncVars>>

\* ------------------------------------------------------- record extraction
BestPrice(a, b) == IF a = NoneNum THEN b ELSE IF b = NoneNum THEN a ELSE IF b < a THEN b ELSE a

\* history only: note that record p was observed
Observe(o, p) ==
    IF Key(p) \in DOMAIN o
    THEN [o EXCEPT ![Key(p)] = BestPrice(@, p.price)]
    ELSE [k \in DOMAIN o \cup {Key(p)} |-> IF k = Key(p) THEN p.price ELSE o[k]]

MergeState(ps, sn, o) == [products |-> ps, seen |-> sn, obs |-> o, added |-> 0, raised |-> FALSE]

\* variant: the per-item loop without the price filter
extract_item_unfiltered(item, st, source) ==
    IF ~item.isdict THEN st
    ELSE IF item.name = "" THEN st
    ELSE LET pid == IF item.id # None THEN item.id ELSE item.name
             price == _find_price_fields(item)
         IN  IF ~IsStr(item.link) THEN [st EXCEPT !.raised = TRUE]
             ELSE LET link == IF StartsWithSlash(item.link) THEN BASE \o item.link
                              ELSE item.link
                      p == Product(pid, Strip(item.name), price, link, source)
                  IN  IF Key(p) \in st.seen
                      THEN [st EXCEPT !.obs = Observe(@, p)]
                      ELSE [st EXCEPT !.products = Append(@, p),
                                      !.seen = @ \cup {Key(p)},
                                      !.added = @ + 1,
                                      !.obs = Observe(@, p)]

\* The body of the per-item loop shared by on_response and the API page
\* merge.  A truthy link that is not a string makes link.startswith raise.
extract_item(item, st, source) ==
    IF ~item.isdict THEN st
    ELSE IF item.name = "" THEN st
    ELSE LET pid == IF item.id # None THEN item.id ELSE item.name
             price == _find_price_fields(item)
         IN  IF price = NoneNum /\ ~args.allow_no_price THEN st
             ELSE IF ~IsStr(item.link) THEN [st EXCEPT !.raised = TRUE]
             ELSE LET link == IF StartsWithSlash(item.link) THEN BASE \o item.link
                              ELSE item.link
                      p == Product(pid, Strip(item.name), price, link, source)
                  IN  IF Key(p) \in st.seen
                      THEN [st EXCEPT !.obs = Observe(@, p)]
                      ELSE [st EXCEPT !.products = Append(@, p),
                                      !.seen = @ \cup {Key(p)},
                                      !.added = @ + 1,
                                      !.obs = Observe(@, p)]

\* for item in lst: ... ; the first exception ends the loop
RECURSIVE merge_list(_, _, _)
merge_list(items, st, source) ==
    IF items = <<>> \/ st.raised THEN st
    ELSE merge_list(Tail(items), extract_item(Head(items), st, source), source)

\* for lst in _extract_lists(data): for item in lst: ...
RECURSIVE merge_lists(_, _, _)
merge_lists(lists, st, source) ==
    IF lists = <<>> \/ st.raised THEN st
    ELSE merge_lists(Tail(lists), merge_list(Head(lists), st, source), source)

\* A record of the discovered arrays that passes every test of the per-item
\* loop is well formed; it is lost when its key is unseen after the merge.
WellFormed(item) ==
    /\ item.isdict
    /\ item.name # ""
    /\ (_find_price_fields(item) # NoneNum \/ args.allow_no_price)
    /\ IsStr(item.link)
ItemKey(item) ==
    <<IF item.id # None THEN item.id ELSE item.name,
      IF StartsWithSlash(item.link) THEN BASE \o item.link ELSE item.link>>
LostRecords(data, sn) ==
    \E k \in 1..Len(_extract_lists(data)) :
        \E j \in 1..Len(_extract_lists(data)[k]) :
            /\ WellFormed(_extract_lists(data)[k][j])
            /\ ItemKey(_extract_lists(data)[k][j]) \notin sn

\* dump_json: the write is wrapped in its own try/except, it never raises
dump_json(io_fails) == FALSE

\* "except Exception: pass" closing on_response: nothing raised in the body
\* leaves the callback
on_response_except(raised) == FALSE

\* on_response(resp), as a function of the state it reads; io_fails says
\* whether writing the raw-debug dump fails.
on_response(resp, io_fails) ==
    LET u == resp.url
        same == [products |-> products, seen |-> seen, obs |-> obs,
                 first_api_url |-> first_api_url, escaped |-> FALSE, lost |-> FALSE]
    IN  IF ~HasKeyword(u) THEN same
        ELSE LET seed == IF first_api_url = NoUrl /\ _is_products_endpoint(u)
                         THEN u ELSE first_api_url
             IN  IF ~resp.json_ok THEN [same EXCEPT !.first_api_url = seed]
                 ELSE LET st == merge_lists(_extract_lists(resp.data),
                                            MergeState(products, seen, obs), "capture")
                          raised == st.raised \/
                                    (~st.raised /\ args.debug /\ st.added > 0 /\ dump_json(io_fails))
                      IN  [products |-> st.products, seen |-> st.seen, obs |-> st.obs,
                           first_api_url |-> seed,
                           escaped |-> raised /\ on_response_except(raised),
                           lost |-> LostRecords(resp.data, st.seen)]

\* ------------------------------------------------------------ _dom_collect
\* the first /(\d{5,})(?:/|$) of the url
PidFromUrl(url) ==
    LET hits == {k \in 2..Len(url) : /\ DigitCount(url[k]) >= 5
                                      /\ EndsWithSlash(url[k - 1])
                                      /\ (k = Len(url) \/ StartsWithSlash(<<url[k + 1]>>))}
    IN  IF hits = {} THEN None ELSE url[Min(hits)]

\* one element of the nodes loop: a list of zero or one Product
dom_element(el) ==
    IF el.raises THEN <<>>
    ELSE LET price == _norm_price(el.price_txt)
         IN  IF price = NoneNum /\ ~args.allow_no_price THEN <<>>
             ELSE LET href == el.href
                      url == IF href # EmptyStr /\ StartsWithHttp(href) THEN href
                             ELSE IF href # EmptyStr THEN BASE \o href ELSE EmptyStr
                      m == IF url # EmptyStr THEN PidFromUrl(url) ELSE None
                      pid == IF m # None THEN m ELSE el.name
                  IN  <<Product(pid, el.name, price, url, "dom")>>

RECURSIVE dom_loop(_, _)
dom_loop(nodes, idx) ==
    IF nodes = <<>> \/ idx >= args.max_dom_nodes THEN <<>>
    ELSE dom_element(Head(nodes)) \o dom_loop(Tail(nodes), idx + 1)

\* the elements _dom_collect works on: matches[1] is what the container query
\* returns, the others what the selectors return, in the order of the list;
\* the first non-empty one is taken
RECURSIVE query_nodes(_)
query_nodes(matches) ==
    IF matches = <<>> THEN <<>>
    ELSE IF Head(matches) # <<>> THEN Head(matches)
    ELSE query_nodes(Tail(matches))

_dom_collect(matches) == dom_loop(query_nodes(matches), 0)

\* the merge loop of _walk_pages over dom_items
RECURSIVE walk_merge(_, _)
walk_merge(items, st) ==
    IF items = <<>> THEN st
    ELSE LET it == Head(items)
             o == IF it.name # "" THEN Observe(st.obs, it) ELSE st.obs
         IN  walk_merge(Tail(items),
                 IF Key(it) \notin st.seen /\ it.name # ""
                 THEN [st EXCEPT !.products = Append(@, it), !.seen = @ \cup {Key(it)},
                                 !.added = @ + 1, !.obs = o]
                 ELSE [st EXCEPT !.obs = o])

RECURSIVE ObserveAll(_, _)
ObserveAll(o, items) ==
    IF items = <<>> THEN o
    ELSE ObserveAll(IF Head(items).name # "" THEN Observe(o, Head(items)) ELSE o, Tail(items))

\* ------------------------------------------------------------ final dedup
\* dedup[(p.id, p.url)] = p over products, then list(dedup.values()): a key
\* keeps the position of its first record and the value of its last.
RECURSIVE dedup_rows(_, _)
dedup_rows(ps, acc) ==
    IF ps = <<>> THEN acc
    ELSE LET p == Head(ps)
         IN  IF p.name = "" THEN dedup_rows(Tail(ps), acc)
             ELSE IF p.price = NoneNum /\ ~args.allow_no_price THEN dedup_rows(Tail(ps), acc)
             ELSE IF \E k \in 1..Len(acc) : Key(acc[k]) = Key(p)
                  THEN dedup_rows(Tail(ps),
                                  [k \in 1..Len(acc) |->
                                      IF Key(acc[k]) = Key(p) THEN p ELSE acc[k]])
                  ELSE dedup_rows(Tail(ps), Append(acc, p))

\* variant: the rows are written without the dedup dict
csv_rows_nodedup(ps) == SelectSeq(ps, LAMBDA p : p.name # "" /\ (p.price # NoneNum \/ args.allow_no_price))

\* what the CSV writer is handed
csv_rows(ps) == dedup_rows(ps, <<>>)

\* ------------------------------------------------------------ page window
\* An optional page number is <<>> (None) or <<n>>.
\* variant: the start page is taken as given
eff_start_as_given == IF args.start_page # <<>> THEN args.start_page[1] ELSE 1

eff_start == IF args.start_page # <<>>
             THEN (IF args.start_page[1] > 1 THEN args.start_page[1] ELSE 1)
             ELSE 1
eff_end == LET e == IF args.end_page # <<>> THEN args.end_page[1] ELSE MAX_PAGES
           IN  IF e > eff_start THEN e ELSE eff_start

\* ------------------------------------------------------------------- runs
\* (start_page, end_page) pairs tried
PageArgs == {<<<<>>, <<>>>>, <<<<2>>, <<1>>>>}
\* --debug is tried with the one-page window, limit 1 and prices required
ArgSets == ({[start_page |-> w[1], end_page |-> w[2], debug |-> d, stagnant_limit |-> n,
             max_dom_nodes |-> MaxNodes, allow_no_price |-> a] :
               w \in PageArgs, d \in BOOLEAN, n \in 1..MaxStagnantLimit, a \in BOOLEAN} \
           {x \in [start_page : {<<>>, <<2>>}, end_page : {<<>>, <<1>>}, debug : {TRUE},
                   stagnant_limit : 1..MaxStagnantLimit, max_dom_nodes : {MaxNodes},
                   allow_no_price : BOOLEAN] :
               x.start_page = <<>> \/ x.stagnant_limit # 1 \/ x.allow_no_price})
           \cup
           \* a zero start page and a negative end page
           {[start_page |-> <<0>>, end_page |-> <<-1>>, debug |-> FALSE, stagnant_limit |-> 1,
             max_dom_nodes |-> MaxNodes, allow_no_price |-> FALSE]}

\* no store-selection attempt is under way
SelIdle == [opened |-> FALSE, found |-> FALSE, clicked |-> FALSE, state |-> "Idle"]

ShopInit ==
    /\ pc = "store"
    /\ args \in ArgSets
    /\ attempt = 1
    /\ handler_on = FALSE
    /\ products = <<>>
    /\ seen = {}
    /\ first_api_url = NoUrl
    /\ break_reason = None
    /\ i = 0 /\ retries = 0 /\ stagnant = 0
    /\ page_idx = 0 /\ stagnant_rounds = 0 /\ total_before = 0
    /\ pre_dom_total = 0
    /\ escaped = FALSE
    /\ written = FALSE
    /\ out_csv = <<>>
    /\ html_snap = FALSE
    /\ obs = <<>>
    /\ api_log = <<>>
    /\ api_contrib = 0
    /\ sleep_for = 0
    /\ sel = SelIdle
    /\ api_ran = FALSE

\* _select_store_via_locator(page): page.goto of the locator is outside any try;
\* without a visible card it returns False before the CTA loops; without a
\* CTA it only prints and goes on
_select_store_via_locator(goto_ok, card_visible, cta_visible) ==
    IF ~goto_ok
    THEN [opened |-> FALSE, found |-> FALSE, clicked |-> FALSE, raised |-> TRUE]
    ELSE IF ~card_visible
    THEN [opened |-> TRUE, found |-> FALSE, clicked |-> FALSE, raised |-> FALSE]
    ELSE [opened |-> TRUE, found |-> TRUE, clicked |-> cta_visible, raised |-> FALSE]

\* _verify_store(page, TARGET_STORE_REGEX): localStorage, then the header text
_verify_store(ls_match, header_match) == ls_match \/ header_match

\* one pass of the body of the store loop: the value _select_store_via_locator
\* returns is dropped, _verify_store is called whenever it did not raise, and
\* the waits inside the try can raise as well
StorePass(outcome, goto_ok, card_visible, cta_visible, ls_match, header_match, wait_ok) ==
    LET r == _select_store_via_locator(goto_ok, card_visible, cta_visible)
        o == IF r.raised \/ (r.found /\ ~wait_ok) THEN "raised"
             ELSE IF _verify_store(ls_match, header_match) THEN "verified"
             ELSE IF ~wait_ok THEN "raised"
             ELSE "unverified"
    IN  /\ outcome = o
        /\ sel' = [opened |-> r.opened, found |-> r.found, clicked |-> r.clicked,
                   state |-> o]

\* variant: the selection is retried until it is verified
StoreAttemptUnbounded(outcome) ==
    /\ pc = "store"
    /\ \E goto_ok, card_visible, cta_visible, ls_match, header_match, wait_ok \in BOOLEAN :
          StorePass(outcome, goto_ok, card_visible, cta_visible, ls_match, header_match,
                    wait_ok)
    /\ IF outcome = "verified"
       THEN pc' = "register" /\ attempt' = attempt
       ELSE pc' = "store" /\ attempt' = attempt + 1
    /\ UNCHANGED <<args, handler_on, products, seen, first_api_url, break_reason,
                   i, retries, stagnant, page_idx, stagnant_rounds, total_before,
                   pre_dom_total, escaped, written, out_csv, html_snap, obs, api_log, api_contrib, sleep_for, api_ran>>
    /\ UNCHANGED <<mergeVars, dasmaVars, calcVars, extraVars>>

\* for attempt in range(1, 3): select the store, verify, retry once
StoreAttempt(outcome) ==
    /\ pc = "store"
    /\ \E goto_ok, card_visible, cta_visible, ls_match, header_match, wait_ok \in BOOLEAN :
          StorePass(outcome, goto_ok, card_visible, cta_visible, ls_match, header_match,
                    wait_ok)
    /\ IF outcome = "verified" \/ attempt = 2
       THEN pc' = "register" /\ attempt' = attempt
       ELSE pc' = "store" /\ attempt' = attempt + 1
    /\ UNCHANGED <<args, handler_on, products, seen, first_api_url, break_reason,
                   i, retries, stagnant, page_idx, stagnant_rounds, total_before,
                   pre_dom_total, escaped, written, out_csv, html_snap, obs, api_log, api_contrib, sleep_for, api_ran>>
    /\ UNCHANGED <<mergeVars, dasmaVars, calcVars, extraVars>>

\* page.on("response", on_response)
Register ==
    /\ pc = "register"
    /\ handler_on' = TRUE
    /\ pc' = "start_nav"
    /\ sel' = SelIdle
    /\ UNCHANGED <<args, attempt, products, seen, first_api_url, break_reason,
                   i, retries, stagnant, page_idx, stagnant_rounds, total_before,
                   pre_dom_total, escaped, written, out_csv, html_snap, obs, api_log, api_contrib, sleep_for, api_ran>>
    /\ UNCHANGED <<mergeVars, dasmaVars, calcVars, extraVars>>

\* page.goto(START_URL): not inside any try, a timeout leaves scrape()
StartNav(ok) ==
    /\ pc = "start_nav"
    /\ pc' = IF ok THEN "seed" ELSE "aborted"
    /\ UNCHANGED <<args, attempt, handler_on, products, seen, first_api_url, break_reason,
                   i, retries, stagnant, page_idx, stagnant_rounds, total_before,
                   pre_dom_total, escaped, written, out_csv, html_snap, obs, api_log, api_contrib, sleep_for, sel, api_ran>>
    /\ UNCHANGED <<mergeVars, dasmaVars, calcVars, extraVars>>

\* The handler runs while scrape() is inside a Playwright call.
CallbackPcs == {"start_nav", "seed", "api_fetch", "dom_goto", "dom_scroll",
                "fb_goto", "fb_collect", "snap"}

OnResponse(resp, io_fails) ==
    /\ handler_on
    /\ pc \in CallbackPcs
    /\ LET r == on_response(resp, io_fails)
       IN  /\ products' = r.products
           /\ seen' = r.seen
           /\ obs' = r.obs
           /\ first_api_url' = r.first_api_url
           /\ escaped' = (escaped \/ r.escaped)
    /\ UNCHANGED <<pc, args, attempt, handler_on, break_reason,
                   i, retries, stagnant, page_idx, stagnant_rounds, total_before,
                   pre_dom_total, written, out_csv, html_snap, api_log, api_contrib, sleep_for, sel, api_ran>>
    /\ UNCHANGED <<mergeVars, dasmaVars, calcVars, extraVars>>

\* the scroll-seed loop ends; the page window is fixed; the API loop is
\* entered when a seed url was captured
SeedDone ==
    /\ pc = "seed"
    /\ IF first_api_url # NoUrl
       THEN pc' = "api_fetch" /\ i' = eff_start /\ api_ran' = TRUE
       ELSE pc' = "api_done" /\ i' = i /\ api_ran' = FALSE
    /\ retries' = 0
    /\ stagnant' = 0
    /\ UNCHANGED <<args, attempt, handler_on, products, seen, first_api_url, break_reason,
                   page_idx, stagnant_rounds, total_before,
                   pre_dom_total, escaped, written, out_csv, html_snap, obs, api_log, api_contrib, sleep_for, sel>>
    /\ UNCHANGED <<mergeVars, dasmaVars, calcVars, extraVars>>

\* stagnant = stagnant + 1 if page_added == 0 else 0
api_ok_stagnant(n, page_added) == IF page_added = 0 THEN n + 1 ELSE 0

\* variant: a page given up on is not counted
api_fail_stagnant_skip(n) == n

\* [api-fail] giving up: stagnant += 1
api_fail_stagnant(n) == n + 1

\* RETRY_WAIT_BASE, in 1/100 s
RETRY_WAIT_BASE == 100
\* random.uniform(0, 0.25), in 1/100 s: its two ends
Jitters == {0, 25}

\* variant: the same wait before every retry
retry_wait_flat(n, jitter) == RETRY_WAIT_BASE + jitter

\* sleep_for = RETRY_WAIT_BASE * (2 ** retries) + random.uniform(0, 0.25)
retry_wait(n, jitter) == RETRY_WAIT_BASE * (2 ^ n) + jitter

\* what one page.request.get can bring back
FetchFail == [ok |-> FALSE, data |-> NoData]
FetchOutcomes == {FetchFail} \cup {[ok |-> TRUE, data |-> d] : d \in Payloads}

\* the try body of one pass: a failed request, a non-OK status or a body
\* that does not parse raises before anything is merged
api_merge(outcome) ==
    IF outcome.ok
    THEN merge_lists(_extract_lists(outcome.data), MergeState(products, seen, obs), "api")
    ELSE [MergeState(products, seen, obs) EXCEPT !.raised = TRUE]

\* One pass of "while retries <= MAX_RETRIES" for page i: the request, the
\* merge of its records, and on the page's last pass the stagnation test
\* that follows the while loop.
ApiAttempt(outcome, io_fails) ==
    /\ pc = "api_fetch"
    /\ LET st == api_merge(outcome)
           raised == st.raised \/ (args.debug /\ dump_json(io_fails))
           s == IF raised THEN api_fail_stagnant(stagnant)
                ELSE api_ok_stagnant(stagnant, st.added)
           halt == s >= args.stagnant_limit
           how == IF ~outcome.ok THEN "fetch_fail" ELSE IF raised THEN "merge_raise" ELSE "ok"
       IN  /\ products' = st.products
           /\ seen' = st.seen
           /\ obs' = st.obs
           /\ IF raised /\ retries < MAX_RETRIES
              THEN /\ \E jitter \in Jitters : sleep_for' = retry_wait(retries, jitter)
                   /\ retries' = retries + 1
                   /\ api_contrib' = api_contrib + st.added
                   /\ UNCHANGED <<pc, i, stagnant, api_log, break_reason>>
              ELSE /\ stagnant' = s
                   /\ retries' = 0
                   /\ api_log' = Append(api_log, [added |-> api_contrib + st.added, how |-> how])
                   /\ api_contrib' = 0
                   /\ sleep_for' = 0
                   /\ break_reason' = IF halt THEN "api-stagnation" ELSE break_reason
                   /\ IF ~halt /\ i < eff_end
                      THEN i' = i + 1 /\ pc' = "api_fetch"
                      ELSE i' = i /\ pc' = "api_done"
    /\ UNCHANGED <<args, attempt, handler_on, first_api_url,
                   page_idx, stagnant_rounds, total_before,
                   pre_dom_total, escaped, written, out_csv, html_snap, sel, api_ran>>
    /\ UNCHANGED <<mergeVars, dasmaVars, calcVars, extraVars>>

\* variant: the DOM walk is skipped when the API loop stopped on stagnation
WalkStartUnlessStagnant ==
    /\ pc = "api_done"
    /\ break_reason = None
    /\ pre_dom_total' = Len(products)
    /\ total_before' = Len(products)
    /\ stagnant_rounds' = 0
    /\ page_idx' = eff_start
    /\ pc' = "dom_goto"
    /\ i' = 0 /\ retries' = 0 /\ stagnant' = 0
    /\ api_log' = <<>> /\ api_contrib' = 0 /\ sleep_for' = 0
    /\ UNCHANGED <<args, attempt, handler_on, products, seen, first_api_url, break_reason,
                   escaped, written, out_csv, html_snap, obs, sel, api_ran>>
    /\ UNCHANGED <<mergeVars, dasmaVars, calcVars, extraVars>>

\* pre_dom_total = len(products); _walk_pages(...) starts.  The API loop's
\* locals are dead from here on and are cleared with its history.
WalkStart ==
    /\ pc = "api_done"
    /\ pre_dom_total' = Len(products)
    /\ total_before' = Len(products)
    /\ stagnant_rounds' = 0
    /\ page_idx' = eff_start
    /\ pc' = "dom_goto"
    /\ i' = 0 /\ retries' = 0 /\ stagnant' = 0
    /\ api_log' = <<>> /\ api_contrib' = 0 /\ sleep_for' = 0
    /\ UNCHANGED <<args, attempt, handler_on, products, seen, first_api_url, break_reason,
                   escaped, written, out_csv, html_snap, obs, sel, api_ran>>
    /\ UNCHANGED <<mergeVars, dasmaVars, calcVars, extraVars>>

\* _walk_pages moves to the next page or returns; on return scrape() sets
\* break_reason and decides on the final DOM attempt.
WalkNext(sr, ps, halt) ==
    IF ~halt /\ page_idx < eff_end
    THEN /\ page_idx' = page_idx + 1
         /\ stagnant_rounds' = sr
         /\ pc' = "dom_goto"
         /\ UNCHANGED <<break_reason, pre_dom_total>>
    ELSE /\ page_idx' = 0
         /\ stagnant_rounds' = 0
         /\ pre_dom_total' = 0
         /\ break_reason' = IF break_reason = None /\ Len(ps) = pre_dom_total
                             THEN "dom-no-growth" ELSE break_reason
         /\ pc' = IF ps = <<>> THEN "fb_goto" ELSE "snap"

\* page.goto(url) of _walk_pages, inside a try
DomGoto(ok) ==
    /\ pc = "dom_goto"
    /\ IF ok
       THEN /\ pc' = "dom_scroll"
            /\ UNCHANGED <<page_idx, stagnant_rounds, total_before, break_reason, pre_dom_total>>
       ELSE /\ WalkNext(stagnant_rounds + 1, products,
                        stagnant_rounds + 1 >= args.stagnant_limit)
            /\ total_before' = IF pc' = "dom_goto" THEN total_before ELSE 0
    /\ UNCHANGED <<args, attempt, handler_on, products, seen, first_api_url,
                   i, retries, stagnant, escaped, written, out_csv, html_snap, obs, api_log, api_contrib, sleep_for, sel, api_ran>>
    /\ UNCHANGED <<mergeVars, dasmaVars, calcVars, extraVars>>

\* after the scroll cycles: _dom_collect, the merge, the stagnation test
DomCollect(matches) ==
    /\ pc = "dom_scroll"
    /\ LET st == walk_merge(_dom_collect(matches), MergeState(products, seen, obs))
           sr == IF Len(st.products) = total_before THEN stagnant_rounds + 1 ELSE 0
       IN  /\ products' = st.products
           /\ seen' = st.seen
           /\ obs' = st.obs
           /\ WalkNext(sr, st.products, sr >= args.stagnant_limit)
           /\ total_before' = IF pc' = "dom_goto" THEN Len(st.products) ELSE 0
    /\ UNCHANGED <<args, attempt, handler_on, first_api_url,
                   i, retries, stagnant, escaped, written, out_csv, html_snap, api_log, api_contrib, sleep_for, sel, api_ran>>
    /\ UNCHANGED <<mergeVars, dasmaVars, calcVars, extraVars>>

\* final DOM attempt: page.goto(START_URL), not inside any try
FbGoto(ok) ==
    /\ pc = "fb_goto"
    /\ pc' = IF ok THEN "fb_collect" ELSE "aborted"
    /\ UNCHANGED <<args, attempt, handler_on, products, seen, first_api_url, break_reason,
                   i, retries, stagnant, page_idx, stagnant_rounds, total_before,
                   pre_dom_total, escaped, written, out_csv, html_snap, obs, api_log, api_contrib, sleep_for, sel, api_ran>>
    /\ UNCHANGED <<mergeVars, dasmaVars, calcVars, extraVars>>

\* products = _dom_collect(page, ...): the list is replaced, seen is not
FbCollect(matches) ==
    /\ pc = "fb_collect"
    /\ products' = _dom_collect(matches)
    /\ obs' = ObserveAll(obs, products')
    /\ break_reason' = IF products' # <<>> THEN "fallback-dom" ELSE break_reason
    /\ pc' = "snap"
    /\ UNCHANGED <<args, attempt, handler_on, seen, first_api_url,
                   i, retries, stagnant, page_idx, stagnant_rounds, total_before,
                   pre_dom_total, escaped, written, out_csv, html_snap, api_log, api_contrib, sleep_for, sel, api_ran>>
    /\ UNCHANGED <<mergeVars, dasmaVars, calcVars, extraVars>>

\* the snapshots, each in its own try (page.content() may raise), page.off,
\* ctx.close()
Close(ok) ==
    /\ pc = "snap"
    /\ html_snap' = ok
    /\ handler_on' = FALSE
    /\ pc' = "closed"
    /\ UNCHANGED <<args, attempt, products, seen, first_api_url, break_reason,
                   i, retries, stagnant, page_idx, stagnant_rounds, total_before,
                   pre_dom_total, escaped, written, out_csv, obs, api_log, api_contrib, sleep_for, sel, api_ran>>
    /\ UNCHANGED <<mergeVars, dasmaVars, calcVars, extraVars>>

\* the dedup dict and the csv.DictWriter
Write ==
    /\ pc = "closed"
    /\ out_csv' = csv_rows(products)
    /\ written' = TRUE
    /\ pc' = "done"
    /\ UNCHANGED <<args, attempt, handler_on, products, seen, first_api_url, break_reason,
                   i, retries, stagnant, page_idx, stagnant_rounds, total_before,
                   pre_dom_total, escaped, html_snap, obs, api_log, api_contrib, sleep_for, sel, api_ran>>
    /\ UNCHANGED <<mergeVars, dasmaVars, calcVars, extraVars>>

ShopNext ==
    \/ \E o \in {"verified", "unverified", "raised"} : StoreAttempt(o)
    \/ Register
    \/ \E ok \in BOOLEAN : StartNav(ok)
    \/ \E r \in Responses : \E f \in (IF args.debug THEN BOOLEAN ELSE {FALSE}) : OnResponse(r, f)
    \/ SeedDone
    \/ \E o \in FetchOutcomes : \E f \in (IF args.debug THEN BOOLEAN ELSE {FALSE}) : ApiAttempt(o, f)
    \/ WalkStart
    \/ \E ok \in BOOLEAN : DomGoto(ok)
    \/ \E ms \in NodeMatches : DomCollect(ms)
    \/ \E ok \in BOOLEAN : FbGoto(ok)
    \/ \E ms \in NodeMatches : FbCollect(ms)
    \/ \E ok \in BOOLEAN : Close(ok)
    \/ Write

\* ============================================================ merge utility
\* scripts/dedup_waltermart_csv.py: one canonical row per normalized name.
\* A CSV cell holding a name, an id or a url is a sequence of characters; a
\* price cell is one of the strings to_float is tabulated on.

\* most rows of the input CSV
MaxRows == 3
\* runs of the utility over the same file
MaxRuns == 2

Absent == "<absent>"
sep == ";"

Whitespace == {" "}
Alnum == {"s", "a", "t", "1", "2", "3", "4", "5"}
Chars == Alnum \cup Whitespace \cup {"S", "A", "!"}

\* str.lower
lower(c) == CASE c = "S" -> "s" [] c = "A" -> "a" [] OTHER -> c

RECURSIVE DropWhile(_, _)
DropWhile(s, C) == IF s # <<>> /\ Head(s) \in C THEN DropWhile(Tail(s), C) ELSE s

RECURSIVE DropWhileEnd(_, _)
DropWhileEnd(s, C) ==
    IF s # <<>> /\ s[Len(s)] \in C THEN DropWhileEnd(SubSeq(s, 1, Len(s) - 1), C) ELSE s

\* str.strip
StripWs(s) == DropWhileEnd(DropWhile(s, Whitespace), Whitespace)

\* re.sub(r"[C]+", " ", s): every maximal run of characters of C becomes one space
RECURSIVE SubRuns(_, _)
SubRuns(s, C) ==
    IF s = <<>> THEN <<>>
    ELSE IF Head(s) \in C THEN <<" ">> \o SubRuns(DropWhile(Tail(s), C), C)
    ELSE <<Head(s)>> \o SubRuns(Tail(s), C)

norm_name(s) ==
    LET s1 == [k \in 1..Len(StripWs(s)) |-> lower(StripWs(s)[k])]
        s2 == SubRuns(s1, Whitespace)
        s3 == SubRuns(s2, Chars \ Alnum)
    IN  StripWs(SubRuns(s3, Whitespace))

\* to_float: float(x), else float of what is left of x after dropping every
\* character that is no digit and no dot; None for an empty cell or remainder
to_float(x) ==
    CASE x = "" -> NoneNum
      [] x = "105" -> 10500
      [] x = "99" -> 9900
      [] x = "P99.00" -> 9900
      [] x = "n/a" -> NoneNum
      [] OTHER -> NoneNum

\* f"{v:.2f}"
Fmt2(v) ==
    CASE v = 9900 -> "99.00"
      [] v = 10500 -> "105.00"
      [] OTHER -> "?"

\* sep.join(ids)
RECURSIVE Join(_)
Join(ids) ==
    IF ids = <<>> THEN <<>>
    ELSE IF Len(ids) = 1 THEN ids[1]
    ELSE ids[1] \o <<sep>> \o Join(Tail(ids))

Row(name, price, url, id) ==
    [name |-> name, price |-> price, url |-> url, id |-> id,
     merged_ids |-> <<Absent>>, merged_count |-> Absent, canonical_id |-> <<Absent>>,
     min_price |-> Absent, max_price |-> Absent]

NameSa == <<"S", "a">>
NameSaP == <<" ", "s", "A", "!">>
NameT == <<"t", "1">>
NamePunct == <<"!", " ">>
UrlNone == <<>>
UrlShort == <<"s">>
UrlShortPad == <<" ", "t", " ">>
UrlLong == <<"s", "a">>

Row1 == Row(NameSa, "105", UrlLong, <<"1">>)
Row2 == Row(NameSaP, "99", UrlNone, <<"2">>)
Row3 == Row(NameSa, "P99.00", UrlShort, <<" ", "2">>)
Row4 == Row(NameSaP, "99", UrlShortPad, <<>>)
Row5 == Row(NameSa, "", UrlLong, <<"3">>)
Row6 == Row(NameT, "n/a", UrlNone, <<"4">>)
Row7 == Row(NamePunct, "99", UrlLong, <<"5">>)
Row8 == Row(NameSa, "99", UrlLong, <<"3">>)
RowSet == {Row1, Row2, Row3, Row4, Row5, Row6, Row7, Row8}
\* files of up to two rows hold any rows, longer ones the rows of LongRows
LongRows == {Row1, Row2, Row8}
InputFiles == UNION {[1..n -> RowSet] : n \in 0..2} \cup
              UNION {[1..n -> LongRows] : n \in 3..MaxRows}

Get(f, k, d) == IF k \in DOMAIN f THEN f[k] ELSE d
Put(f, k, v) == [x \in DOMAIN f \cup {k} |-> IF x = k THEN v ELSE f[x]]

MergeIdle ==
    /\ mpc = "idle" /\ keep_no_price = FALSE
    /\ csv_file = <<>> /\ bak_file = <<>>
    /\ rows = <<>> /\ ridx = 0
    /\ best = <<>> /\ best_keys = <<>>
    /\ all_ids = <<>> /\ all_prices = <<>> /\ counts = <<>>
    /\ runs = 0 /\ file_in = <<>>

MergeInit ==
    /\ mpc = "start" /\ keep_no_price \in BOOLEAN
    /\ csv_file \in InputFiles /\ bak_file = <<>>
    /\ rows = <<>> /\ ridx = 0
    /\ best = <<>> /\ best_keys = <<>>
    /\ all_ids = <<>> /\ all_prices = <<>> /\ counts = <<>>
    /\ runs = 1 /\ file_in = <<>>

\* rows = list(reader); no rows: exit(0)
Load ==
    /\ mpc = "start"
    /\ rows' = csv_file /\ file_in' = csv_file
    /\ ridx' = 1
    /\ best' = <<>> /\ best_keys' = <<>>
    /\ all_ids' = <<>> /\ all_prices' = <<>> /\ counts' = <<>>
    /\ mpc' = IF csv_file = <<>> THEN "exit" ELSE "loop"
    /\ UNCHANGED <<keep_no_price, csv_file, bak_file, runs>>
    /\ UNCHANGED <<shopVars, dasmaVars, calcVars, extraVars>>

\* variant: a lower price does not replace the canonical row
replace_no_lower(cur, r) ==
    LET cur_price == to_float(cur.price)
        price == to_float(r.price)
    IN  cur_price = NoneNum /\ price # NoneNum

\* variant: on equal prices a url of the same length replaces too
replace_ge(cur, r) ==
    LET cur_price == to_float(cur.price)
        price == to_float(r.price)
        cur_url == StripWs(cur.url)
        new_url == StripWs(r.url)
    IN  IF cur_price = NoneNum /\ price # NoneNum THEN TRUE
        ELSE IF price # NoneNum /\ cur_price # NoneNum
        THEN IF price < cur_price THEN TRUE
             ELSE IF price = cur_price
             THEN IF new_url # <<>> /\ cur_url = <<>> THEN TRUE
                  ELSE new_url # <<>> /\ cur_url # <<>> /\ Len(new_url) >= Len(cur_url)
             ELSE FALSE
        ELSE FALSE

\* "Decide if replace current canonical"
replace(cur, r) ==
    LET cur_price == to_float(cur.price)
        price == to_float(r.price)
        cur_url == StripWs(cur.url)
        new_url == StripWs(r.url)
    IN  IF cur_price = NoneNum /\ price # NoneNum THEN TRUE
        ELSE IF price # NoneNum /\ cur_price # NoneNum
        THEN IF price < cur_price THEN TRUE
             ELSE IF price = cur_price
             THEN IF new_url # <<>> /\ cur_url = <<>> THEN TRUE
                  ELSE new_url # <<>> /\ cur_url # <<>> /\ Len(new_url) > Len(cur_url)
             ELSE FALSE
        ELSE FALSE

\* does the loop body get past its two filters for row r
Passes(r) ==
    /\ norm_name(r.name) # <<>>
    /\ to_float(r.price) # NoneNum \/ keep_no_price

\* one iteration of "for r in rows"
MergeRow ==
    /\ mpc = "loop"
    /\ LET r == rows[ridx]
           key == norm_name(r.name)
           price == to_float(r.price)
           rid == StripWs(r.id)
           ids == Get(all_ids, key, <<>>)
       IN  IF ~Passes(r)
           THEN UNCHANGED <<best, best_keys, all_ids, all_prices, counts>>
           ELSE /\ counts' = Put(counts, key, Get(counts, key, 0) + 1)
                /\ all_ids' = IF rid = <<>> THEN all_ids
                              ELSE IF \E k \in 1..Len(ids) : ids[k] = rid
                                   THEN Put(all_ids, key, ids)
                                   ELSE Put(all_ids, key, Append(ids, rid))
                /\ all_prices' = IF price = NoneNum THEN all_prices
                                 ELSE Put(all_prices, key, Append(Get(all_prices, key, <<>>), price))
                /\ IF key \notin DOMAIN best
                   THEN best' = Put(best, key, r) /\ best_keys' = Append(best_keys, key)
                   ELSE /\ best' = IF replace(best[key], r) THEN Put(best, key, r) ELSE best
                        /\ best_keys' = best_keys
    /\ ridx' = ridx + 1
    /\ mpc' = IF ridx = Len(rows) THEN "backup" ELSE "loop"
    /\ UNCHANGED <<keep_no_price, csv_file, bak_file, rows, runs, file_in>>
    /\ UNCHANGED <<shopVars, dasmaVars, calcVars, extraVars>>

\* shutil.copy2(CSV_PATH, BAK_PATH), a failure only warned about
Backup(ok) ==
    /\ mpc = "backup"
    /\ bak_file' = IF ok THEN csv_file ELSE bak_file
    /\ mpc' = "write"
    /\ UNCHANGED <<keep_no_price, csv_file, rows, ridx, best, best_keys,
                   all_ids, all_prices, counts, runs, file_in>>
    /\ UNCHANGED <<shopVars, dasmaVars, calcVars, extraVars>>

SeqRange(s) == {s[k] : k \in 1..Len(s)}

out_row(key) ==
    LET row == best[key]
        ids_list == Get(all_ids, key, <<>>)
        prices == Get(all_prices, key, <<>>)
    IN  [row EXCEPT !.merged_ids = Join(ids_list),
                    !.merged_count = ToString(Get(counts, key, 0)),
                    !.canonical_id = IF StripWs(row.id) # <<>> THEN StripWs(row.id)
                                     ELSE IF ids_list # <<>> THEN ids_list[1] ELSE <<>>,
                    !.min_price = IF prices # <<>> THEN Fmt2(Min(SeqRange(prices))) ELSE "",
                    !.max_price = IF prices # <<>> THEN Fmt2(Max(SeqRange(prices))) ELSE ""]

\* the DictWriter block: CSV_PATH is overwritten with one row per key
WriteMerged ==
    /\ mpc = "write"
    /\ csv_file' = [k \in 1..Len(best_keys) |-> out_row(best_keys[k])]
    /\ mpc' = "done"
    /\ UNCHANGED <<keep_no_price, bak_file, rows, ridx, best, best_keys,
                   all_ids, all_prices, counts, runs, file_in>>
    /\ UNCHANGED <<shopVars, dasmaVars, calcVars, extraVars>>

\* the utility is started again with the same arguments
Rerun ==
    /\ mpc = "done"
    /\ runs < MaxRuns
    /\ runs' = runs + 1
    /\ mpc' = "start"
    /\ UNCHANGED <<keep_no_price, csv_file, bak_file, rows, ridx, best, best_keys,
                   all_ids, all_prices, counts, file_in>>
    /\ UNCHANGED <<shopVars, dasmaVars, calcVars, extraVars>>

MergeNext ==
    \/ Load
    \/ MergeRow
    \/ \E ok \in BOOLEAN : Backup(ok)
    \/ WriteMerged
    \/ Rerun

\* ========================================================== primary scraper
\* data/scrape_waltermart_dasma.py: store navigation, then per category the
\* response listener, the candidate navigations, the product cards and the
\* product pages; at the end the data frame is filtered and written.

\* CATEGORY_PATHS has three entries; the walk is scaled down
NumCategories == 2
\* candidate URLs tried per category: three filter routes, hashbang, legacy
NumCandidates == 5
\* most rows the collected list is followed to
MaxRowsD == 3
\* another run is started while the table holds fewer rows than this
MaxTable == 2

safe_seg(c) == <<"shop_shop_by_category", c>>

\* parse_size: the first number directly followed by g, kg, ml or l
parse_size(text) ==
    CASE text = "Tuna 155g" -> [val |-> 155, unit |-> "g"]
      [] text = "Milk 1L" -> [val |-> 1, unit |-> "l"]
      [] text = "Gel 0g" -> [val |-> 0, unit |-> "g"]
      [] OTHER -> [val |-> NoneNum, unit |-> None]

\* stands for a ZeroDivisionError where a number is expected
Raised == -2

\* unit_price in centavos per kg or L, rounded down; a size of zero makes
\* either division raise
unit_price(price, size_val, size_unit) ==
    IF price = NoneNum \/ size_val = NoneNum \/ size_unit = None THEN NoneNum
    ELSE IF size_unit \in {"kg", "l"}
         THEN (IF size_val = 0 THEN Raised ELSE price \div size_val)
    ELSE IF size_unit \in {"g", "ml"}
         THEN (IF size_val = 0 THEN Raised ELSE (price * 1000) \div size_val)
    ELSE NoneNum

\* _extract_price: the minimum of the numeric candidates of five keys (no
\* item of the universe carries a nested "pricing" mapping)
_extract_price(obj) ==
    IF ~obj.isdict THEN NoneNum
    ELSE LET cands == flat_cands(obj, {"price", "current_price", "sale_price", "regular_price",
                                       "price_in_cents"}) \cup pricing_cands(obj)
         IN IF cands = {} THEN NoneNum ELSE Min(cands)

\* variant: unit_price is set to the price itself, not derived from the size
DRow_price_as_unit(name, price, product_url, source) ==
    [name |-> name, price |-> price,
     size_value |-> parse_size(name).val, size_unit |-> parse_size(name).unit,
     unit_price |-> price,
     product_url |-> product_url, source |-> source]

DRow(name, price, product_url, source) ==
    [name |-> name, price |-> price,
     size_value |-> parse_size(name).val, size_unit |-> parse_size(name).unit,
     unit_price |-> unit_price(price, parse_size(name).val, parse_size(name).unit),
     product_url |-> product_url, source |-> source]

\* does building the row of this name and price raise
row_raises(name, price) ==
    unit_price(price, parse_size(name).val, parse_size(name).unit) = Raised

ItemZero == Item(TRUE, "Gel 0g", "55", [k \in {"price"} |-> 20], EmptyStr)

\* responses the page delivers to the listener
DResp(ctype_json, url, json_ok, data) ==
    [ctype_json |-> ctype_json, url |-> url, json_ok |-> json_ok, data |-> data]
DPayloads == {[shape |-> "nested1", items |-> <<ItemA1>>],
              [shape |-> "top", items |-> <<ItemA1, ItemNonDict, ItemB>>],
              [shape |-> "nested2", items |-> <<ItemA2>>],
              [shape |-> "nested1", items |-> <<ItemZero>>],
              [shape |-> "deeper", items |-> <<ItemB>>]}
DResponses == {DResp(FALSE, UrlApi, TRUE, [shape |-> "nested1", items |-> <<ItemA1>>]),
               DResp(TRUE, UrlImg, TRUE, [shape |-> "nested1", items |-> <<ItemA1>>]),
               DResp(TRUE, UrlApi, FALSE, NoData)} \cup
              {DResp(TRUE, UrlApi, TRUE, d) : d \in DPayloads}

\* product cards and product pages of a rendered category
NodeNoName == Node(FALSE, " ", "P99.00", <<"/p/", "77">>)
CardSeqs == {<<>>, <<NodeD1>>, <<NodeRaise, NodeD2>>, <<NodeNoPrice>>, <<NodeNoName>>}
\* what the card selectors match on one category page, in the order of
\* card_selectors
\* for i in range(min(n, 200)): the 200 is scaled down to 2 cards
CARD_CAP == 2
CardMatches == {<<cs>> : cs \in CardSeqs} \cup
               {<< <<>>, <<NodeD1>> >>, << <<NodeRaise>>, <<NodeD1>> >>,
                << <<NodeD1, NodeD2, NodeNoName>> >>,
                << <<NodeRaise, NodeRaise>>, <<NodeD1>> >>}
\* cards.nth(i) for i in range(min(n, 200))
capped(cards) == SubSeq(cards, 1, IF Len(cards) < CARD_CAP THEN Len(cards) ELSE CARD_CAP)
\* url after the loop over the candidates: the last candidate of the category
CategoryUrl(c) == Url(ToString(c), {}, {})

PageRaise == Node(TRUE, "", None, <<"/p/", "5">>)
PageSeqs == {<<>>, <<NodeD1>>, <<PageRaise, NodeNoName>>}

\* the price of a card or product page: the first run of digits (with an
\* optional fraction) of the text without its commas, in centavos
card_price(price_txt) ==
    CASE price_txt = None -> NoneNum
      [] price_txt = "P105.00" -> 10500
      [] price_txt = "P99.00" -> 9900
      [] price_txt = "Sold out" -> NoneNum
      [] OTHER -> NoneNum

DasmaIdle ==
    /\ d_pc = "idle" /\ d_cat = 0 /\ d_cand = 0
    /\ d_listening = FALSE
    /\ d_rows = <<>> /\ d_seen = {}
    /\ d_escaped = FALSE /\ d_swallowed = FALSE
    /\ d_written = FALSE /\ d_csv = <<>>
    /\ d_db = <<>> /\ d_inserts = 0 /\ d_snapshot = FALSE

DasmaInit ==
    /\ d_pc = "store_goto" /\ d_cat = 0 /\ d_cand = 0
    /\ d_listening = FALSE
    /\ d_rows = <<>> /\ d_seen = {}
    /\ d_escaped = FALSE /\ d_swallowed = FALSE
    /\ d_written = FALSE /\ d_csv = <<>>
    /\ d_db = <<>> /\ d_inserts = 0 /\ d_snapshot = FALSE

\* await page.goto(STORE_URL): outside any try
StoreGoto(ok) ==
    /\ d_pc = "store_goto"
    /\ d_pc' = IF ok THEN "category" ELSE "aborted"
    /\ d_cat' = IF ok THEN 1 ELSE d_cat
    /\ UNCHANGED <<d_cand, d_listening, d_rows, d_seen, d_escaped, d_swallowed,
                   d_written, d_csv, d_db, d_inserts, d_snapshot>>
    /\ UNCHANGED <<shopVars, mergeVars, calcVars, extraVars>>

\* page.on("response", _capture_response) for the next category
Attach ==
    /\ d_pc = "category"
    /\ d_cat <= NumCategories
    /\ d_listening' = TRUE
    /\ d_cand' = 1
    /\ d_pc' = "navigate"
    /\ UNCHANGED <<d_cat, d_rows, d_seen, d_escaped, d_swallowed, d_written, d_csv, d_db, d_inserts, d_snapshot>>
    /\ UNCHANGED <<shopVars, mergeVars, calcVars, extraVars>>

\* await page.goto(url) for one candidate: outside any try
CandidateGoto(ok) ==
    /\ d_pc = "navigate"
    /\ IF ~ok THEN d_pc' = "aborted" /\ d_cand' = d_cand
       ELSE IF d_cand < NumCandidates THEN d_pc' = "navigate" /\ d_cand' = d_cand + 1
       ELSE d_pc' = "cards" /\ d_cand' = d_cand
    /\ UNCHANGED <<d_cat, d_listening, d_rows, d_seen, d_escaped, d_swallowed,
                   d_written, d_csv, d_db, d_inserts, d_snapshot>>
    /\ UNCHANGED <<shopVars, mergeVars, calcVars, extraVars>>

\* the lists _capture_response walks
capture_lists(data) ==
    IF data.shape \in {"top", "nested1", "nested2"} /\ data.items # <<>> /\ data.items[1].isdict
    THEN <<data.items>> ELSE <<>>

\* variant: the row is appended and its key is not put into seen
capture_item_unmarked(item, st, seg, url_r) ==
    IF ~item.isdict THEN [st EXCEPT !.swallowed = TRUE]
    ELSE IF item.name = "" THEN st
    ELSE LET pid == IF item.id # None THEN item.id ELSE item.name
             key == <<pid, seg>>
         IN  IF key \in st.seen THEN st
             ELSE IF row_raises(item.name, _extract_price(item))
             THEN [st EXCEPT !.swallowed = TRUE]
             ELSE [st EXCEPT !.rows = Append(@, DRow(item.name, _extract_price(item), item.link, url_r))]

\* the try block of one item; an exception of the item is caught and the
\* loop continues
capture_item(item, st, seg, url_r) ==
    IF ~item.isdict THEN [st EXCEPT !.swallowed = TRUE]
    ELSE IF item.name = "" THEN st
    ELSE LET pid == IF item.id # None THEN item.id ELSE item.name
             key == <<pid, seg>>
         IN  IF key \in st.seen THEN st
             ELSE IF row_raises(item.name, _extract_price(item))
             THEN [st EXCEPT !.swallowed = TRUE]
             ELSE [st EXCEPT !.rows = Append(@, DRow(item.name, _extract_price(item), item.link, url_r)),
                             !.seen = @ \cup {key}]

RECURSIVE capture_list(_, _, _, _)
capture_list(lst, st, seg, url_r) ==
    IF lst = <<>> THEN st
    ELSE capture_list(Tail(lst), capture_item(Head(lst), st, seg, url_r), seg, url_r)

\* variant: the outer handler lets the exception through
capture_reraise(raised) == raised

\* except Exception: pass, around the whole callback
capture_except(raised) == FALSE

\* _capture_response for the category with segment seg
_capture_response(resp, seg, io_fails) ==
    LET st0 == [rows |-> d_rows, seen |-> d_seen, swallowed |-> d_swallowed]
        taken == resp.ctype_json /\ (resp.url.subs \cap
                    {"freshop", "products", "search", "department", "category", "aisle"} # {})
        lists == capture_lists(resp.data)
        st == IF taken /\ resp.json_ok /\ lists # <<>>
              THEN capture_list(lists[1], st0, seg, resp.url) ELSE st0
    IN  [rows |-> st.rows, seen |-> st.seen,
         swallowed |-> (st.swallowed \/ (taken /\ ~resp.json_ok)),
         escaped |-> capture_except(taken /\ ~resp.json_ok)]

\* a response arrives while the listener is attached
CaptureResponse(resp, io_fails) ==
    /\ d_listening
    /\ d_pc \in {"navigate", "cards"}
    /\ Len(d_rows) < MaxRowsD
    /\ LET res == _capture_response(resp, safe_seg(d_cat), io_fails)
       IN  /\ d_rows' = res.rows /\ d_seen' = res.seen
           /\ d_swallowed' = res.swallowed
           /\ d_escaped' = (d_escaped \/ res.escaped)
    /\ UNCHANGED <<d_pc, d_cat, d_cand, d_listening, d_written, d_csv, d_db, d_inserts, d_snapshot>>
    /\ UNCHANGED <<shopVars, mergeVars, calcVars, extraVars>>

\* callbacks suspended at once
MaxPending == 2
\* the responses whose callbacks are followed across their suspension: two
\* bodies that share the record ItemA1, and one whose body cannot be read
AsyncResponses == {DResp(TRUE, UrlApi, TRUE, [shape |-> "nested1", items |-> <<ItemA1>>]),
                   DResp(TRUE, UrlApi, TRUE, [shape |-> "top", items |-> <<ItemA1, ItemNonDict, ItemB>>]),
                   DResp(TRUE, UrlApi, FALSE, NoData)}

\* the suspended callbacks, counted per response: the event loop resumes
\* them in the order their bodies arrive, whatever the order they started in
NoPending == [r \in AsyncResponses |-> 0]
RECURSIVE PendingCount(_, _)
PendingCount(p, rs) ==
    IF rs = {} THEN 0
    ELSE LET r == CHOOSE x \in rs : TRUE IN p[r] + PendingCount(p, rs \ {r})
Pending(p) == PendingCount(p, AsyncResponses)

\* the test before `data = await response.json()`
capture_taken(resp) ==
    resp.ctype_json /\ (resp.url.subs \cap
        {"freshop", "products", "search", "department", "category", "aisle"} # {})

\* a response arrives and its callback runs up to `await response.json()`
CaptureStart(resp) ==
    /\ d_listening
    /\ d_pc \in {"navigate", "cards"}
    /\ capture_taken(resp)
    /\ resp \in AsyncResponses
    /\ Pending(d_pending) < MaxPending
    /\ d_pending' = [d_pending EXCEPT ![resp] = @ + 1]
    /\ UNCHANGED dasmaVars
    /\ UNCHANGED <<shopVars, mergeVars, calcVars, scrollVars, visitVars>>

\* a suspended callback gets its body while scrape() is inside an
\* await: the rest of the callback has no await and runs in one piece, with
\* safe_seg as it is by then
CaptureResume(resp, io_fails) ==
    /\ d_pending[resp] > 0
    /\ d_pc \in {"navigate", "cards"}
    /\ Len(d_rows) < MaxRowsD
    /\ LET res == _capture_response(resp, safe_seg(d_cat), io_fails)
       IN  /\ d_rows' = res.rows /\ d_seen' = res.seen
           /\ d_swallowed' = res.swallowed
           /\ d_escaped' = (d_escaped \/ res.escaped)
    /\ d_pending' = [d_pending EXCEPT ![resp] = @ - 1]
    /\ UNCHANGED <<d_pc, d_cat, d_cand, d_listening, d_written, d_csv, d_db, d_inserts, d_snapshot>>
    /\ UNCHANGED <<shopVars, mergeVars, calcVars, scrollVars, visitVars>>

\* one product card: any exception is caught and only warned about
card_row(card, rs, url) ==
    IF card.raises THEN rs
    ELSE IF row_raises(Strip(card.name), card_price(card.price_txt)) THEN rs
    ELSE Append(rs, DRow(Strip(card.name), card_price(card.price_txt),
                         IF card.href # EmptyStr
                         THEN (IF StartsWithHttp(card.href) THEN card.href ELSE BASE \o card.href)
                         ELSE url, url))

RECURSIVE card_rows(_, _, _)
card_rows(cards, rs, url) ==
    IF cards = <<>> THEN rs ELSE card_rows(Tail(cards), card_row(Head(cards), rs, url), url)

\* one product page: prod.goto and the extraction sit in one try
page_row(pg, rs, url) ==
    IF pg.raises THEN rs
    ELSE IF row_raises(Strip(pg.name), card_price(pg.price_txt)) THEN rs
    ELSE Append(rs, DRow(Strip(pg.name), card_price(pg.price_txt), BASE \o pg.href, url))

RECURSIVE page_rows(_, _, _)
page_rows(pages, rs, url) ==
    IF pages = <<>> THEN rs ELSE page_rows(Tail(pages), page_row(Head(pages), rs, url), url)

\* for csel in card_selectors: a selector matching nothing is passed over
\* (n == 0: continue); the loop is left only `if found_any`, that is once a
\* card of the selector gave a row
RECURSIVE card_selectors(_, _, _)
card_selectors(matches, rs, url) ==
    IF matches = <<>> THEN rs
    ELSE IF Head(matches) = <<>> THEN card_selectors(Tail(matches), rs, url)
    ELSE IF Len(card_rows(capped(Head(matches)), rs, url)) > Len(rs)
    THEN card_rows(capped(Head(matches)), rs, url)
    ELSE card_selectors(Tail(matches), rs, url)

\* the cards the loop over card_selectors calls cards.nth(i) on: those of
\* every selector it goes through before it is left
RECURSIVE cards_inspected(_, _, _)
cards_inspected(matches, rs, url) ==
    IF matches = <<>> THEN <<>>
    ELSE IF Head(matches) = <<>> THEN cards_inspected(Tail(matches), rs, url)
    ELSE IF Len(card_rows(capped(Head(matches)), rs, url)) > Len(rs)
    THEN capped(Head(matches))
    ELSE capped(Head(matches)) \o cards_inspected(Tail(matches), rs, url)

\* the product cards of the category; the product pages are visited only
\* when no card gave a row; then page.off and the next category
Cards(matches, pages) ==
    /\ d_pc = "cards"
    /\ LET url == CategoryUrl(d_cat)
           with_cards == card_selectors(matches, d_rows, url)
           found_any == Len(with_cards) > Len(d_rows)
       IN  d_rows' = IF Len(d_rows) >= MaxRowsD THEN d_rows
                     ELSE IF found_any THEN with_cards
                     ELSE page_rows(pages, d_rows, url)
    /\ d_listening' = FALSE
    /\ d_cat' = d_cat + 1
    /\ d_pc' = "category"
    /\ UNCHANGED <<d_cand, d_seen, d_escaped, d_swallowed, d_written, d_csv, d_db, d_inserts, d_snapshot>>
    /\ UNCHANGED <<shopVars, mergeVars, calcVars, extraVars>>

\* await browser.close() after the last category; a callback still awaiting
\* a body raises inside response.json() and ends in `except Exception: pass`
BrowserClose ==
    /\ d_pc = "category"
    /\ d_cat > NumCategories
    /\ d_pc' = "closed"
    /\ d_pending' = NoPending
    /\ UNCHANGED <<d_cat, d_cand, d_listening, d_rows, d_seen, d_escaped, d_swallowed,
                   d_written, d_csv, d_db, d_inserts, d_snapshot>>
    /\ UNCHANGED <<shopVars, mergeVars, calcVars, scrollVars, visitVars>>

\* order of the names under sort_values
NameRank(n) == CASE n = "" -> 0 [] n = "Milk 1L" -> 1 [] n = "Spam" -> 2 [] n = "Tuna 155g" -> 3
                 [] OTHER -> 4

\* dropna(price), sort_values([name, price]), drop_duplicates(name, keep first)
frame(rs) ==
    LET priced == SelectSeq(rs, LAMBDA r : r.price # NoneNum)
        names == {priced[k].name : k \in 1..Len(priced)}
        firstOf(n) == LET idx == {k \in 1..Len(priced) : priced[k].name = n}
                          lo == Min({priced[k].price : k \in idx})
                      IN  priced[Min({k \in idx : priced[k].price = lo})]
        RECURSIVE sorted(_)
        sorted(S) == IF S = {} THEN <<>>
                     ELSE LET n == CHOOSE x \in S : \A y \in S : NameRank(x) <= NameRank(y)
                          IN  <<firstOf(n)>> \o sorted(S \ {n})
    IN  sorted(names)

\* await page.content(): raises once the browser is closed
page_content(open) == IF open THEN "html" ELSE None

\* the data frame: with no rows an empty CSV and, if the page still gives
\* its content, the snapshot; else the filtered frame to the CSV and
\* appended to the table
Persist ==
    /\ d_pc = "closed"
    /\ IF d_rows = <<>>
       THEN /\ d_csv' = <<>>
            /\ d_snapshot' = (d_snapshot \/ page_content(FALSE) # None)
            /\ d_db' = d_db
            /\ d_inserts' = d_inserts
       ELSE /\ d_csv' = frame(d_rows)
            /\ d_db' = d_db \o frame(d_rows)
            /\ d_inserts' = d_inserts + 1
            /\ d_snapshot' = d_snapshot
    /\ d_written' = TRUE
    /\ d_pc' = "done"
    /\ UNCHANGED <<d_cat, d_cand, d_listening, d_rows, d_seen, d_escaped, d_swallowed>>
    /\ UNCHANGED <<shopVars, mergeVars, calcVars, extraVars>>

\* the scraper is started again on the same output directory
DasmaRerun ==
    /\ d_pc = "done"
    /\ Len(d_db) < MaxTable
    /\ d_pc' = "store_goto" /\ d_cat' = 0 /\ d_cand' = 0
    /\ d_listening' = FALSE
    /\ d_rows' = <<>> /\ d_seen' = {}
    /\ d_swallowed' = FALSE
    /\ d_written' = FALSE
    /\ d_inserts' = 0
    /\ UNCHANGED <<d_escaped, d_csv, d_db, d_snapshot>>
    /\ UNCHANGED <<shopVars, mergeVars, calcVars, extraVars>>

DasmaNext ==
    \/ \E ok \in BOOLEAN : StoreGoto(ok)
    \/ Attach
    \/ \E ok \in BOOLEAN : CandidateGoto(ok)
    \/ \E r \in DResponses : \E f \in BOOLEAN : CaptureResponse(r, f)
    \/ \E ms \in CardMatches : \E ps \in PageSeqs : Cards(ms, ps)
    \/ BrowserClose
    \/ Persist

\* ====================================================== direct function calls
\* unit_price and the price resolution of both scrapers are module-level
\* functions; here they are called on arguments of their own.
UnitPrices == {NoneNum, 0, 4500, 9000}
UnitSizes == {NoneNum, 0, 1, 150}
UnitNames == {None, "kg", "g", "l", "ml", "oz"}

\* mappings handed to the price resolution: flat keys, pricing
PObj(isdict, price, pricing) == [isdict |-> isdict, price |-> price, pricing |-> pricing]
NoPricing == [isdict |-> FALSE, at |-> [k \in {} |-> PV(NotNumeric, NotNumeric, NotNumeric)]]
Pricing(at) == [isdict |-> TRUE, at |-> at]
PriceObjs ==
    {PObj(TRUE, [k \in {"regular_price", "sale_price"} |-> IF k = "sale_price" THEN 99 ELSE 120],
          NoPricing),
     PObj(TRUE, NoPriceKeys, NoPricing),
     PObj(FALSE, NoPriceKeys, NoPricing),
     PObj(TRUE, [k \in {"price"} |-> NotNumeric], NoPricing),
     PObj(TRUE, [k \in {"price", "price_in_cents"} |-> IF k = "price" THEN 105 ELSE 9900],
          NoPricing),
     PObj(TRUE, [k \in {"price", "store_price"} |-> IF k = "price" THEN 105 ELSE 80], NoPricing),
     PObj(TRUE, [k \in {"price", "name"} |-> IF k = "price" THEN NotNumeric ELSE 5],
          Pricing([k \in {"other"} |-> PV(1, NotNumeric, NotNumeric)])),
     PObj(TRUE, [k \in {"price"} |-> 105],
          Pricing([k \in {"current"} |-> PV(95, NotNumeric, NotNumeric)])),
     PObj(TRUE, NoPriceKeys,
          Pricing([k \in {"sale", "regular"} |->
                      IF k = "sale" THEN PV(NotNumeric, 90, NotNumeric)
                      ELSE PV(NotNumeric, 120, 110)])),
     PObj(TRUE, [k \in {"sale_price"} |-> 60],
          Pricing([k \in {"price", "sale"} |->
                      IF k = "price" THEN PV(70, 1, 1)
                      ELSE PV(NotNumeric, NotNumeric, NotNumeric)]))}

CalcIdle ==
    /\ c_pc = "idle" /\ c_call = None /\ c_args = <<>> /\ c_result = NoneNum

CalcInit ==
    /\ c_pc = "calls" /\ c_call = None /\ c_args = <<>> /\ c_result = NoneNum

\* unit_price(price, size_val, size_unit)
CallUnitPrice(price, size_val, size_unit) ==
    /\ c_pc = "calls"
    /\ c_call' = "unit_price"
    /\ c_args' = <<price, size_val, size_unit>>
    /\ c_result' = unit_price(price, size_val, size_unit)
    /\ UNCHANGED c_pc
    /\ UNCHANGED <<shopVars, mergeVars, dasmaVars, extraVars>>

\* _extract_price(obj) of the primary scraper
CallExtractPrice(obj) ==
    /\ c_pc = "calls"
    /\ c_call' = "_extract_price"
    /\ c_args' = <<obj>>
    /\ c_result' = _extract_price(obj)
    /\ UNCHANGED c_pc
    /\ UNCHANGED <<shopVars, mergeVars, dasmaVars, extraVars>>

\* _find_price_fields(obj) of the paginated scraper
CallFindPriceFields(obj) ==
    /\ c_pc = "calls"
    /\ c_call' = "_find_price_fields"
    /\ c_args' = <<obj>>
    /\ c_result' = _find_price_fields(obj)
    /\ UNCHANGED c_pc
    /\ UNCHANGED <<shopVars, mergeVars, dasmaVars, extraVars>>

CalcNext ==
    \/ \E obj \in PriceObjs : CallExtractPrice(obj)
    \/ \E obj \in PriceObjs : CallFindPriceFields(obj)
    \/ \E p \in UnitPrices : \E sv \in UnitSizes : \E u \in UnitNames : CallUnitPrice(p, sv, u)

\* ============================================================== scroll loops
\* The scroll-and-wait loop of _walk_pages (paginated scraper) and the
\* auto-scroll of the primary scraper depend on nothing but the heights
\* document.body.scrollHeight evaluates to; they are run here on their own.

\* largest page height, in screens
MaxHeight == 4
\* DEFAULT_SCROLL_CYCLES (20 unless WM_SCROLL_CYCLES is set), scaled down
DEFAULT_SCROLL_CYCLES == 5
\* for _ in range(18), scaled down
AUTO_SCROLL_CAP == 4

ScrollIdle ==
    /\ s_pc = "idle" /\ s_who = None /\ cycle = 0 /\ last_h = 0 /\ stable = 0

\* last_h = 0; stable = 0
ScrollInit ==
    /\ s_pc = "loop" /\ s_who \in {"walk", "auto"}
    /\ cycle = 0 /\ last_h = 0 /\ stable = 0

\* variant: growth does not reset the count
stable_kept(h, last, st) == IF h <= last THEN st + 1 ELSE st

\* if h <= last_h: stable += 1 else: stable = 0
stable_next(h, last, st) == IF h <= last THEN st + 1 ELSE 0

\* one cycle of the loop of _walk_pages: only the first evaluate sits in a
\* try (its exception breaks the loop: "broken"); scrollTo and
\* wait_for_timeout raise out of _walk_pages ("raised"); "done" is the loop
\* left by its own conditions
WalkScrollCycle(h, eval_ok, scroll_ok) ==
    /\ s_pc = "loop" /\ s_who = "walk"
    /\ cycle < DEFAULT_SCROLL_CYCLES
    /\ IF ~eval_ok
       THEN s_pc' = "broken" /\ UNCHANGED <<cycle, last_h, stable>>
       ELSE /\ stable' = stable_next(h, last_h, stable)
            /\ last_h' = h
            /\ cycle' = cycle + 1
            /\ s_pc' = IF stable' >= 3 THEN "done"
                       ELSE IF ~scroll_ok THEN "raised"
                       ELSE IF cycle' = DEFAULT_SCROLL_CYCLES THEN "done"
                       ELSE "loop"
    /\ UNCHANGED s_who
    /\ UNCHANGED <<shopVars, mergeVars, dasmaVars, calcVars, visitVars, asyncVars>>

\* one cycle of the auto-scroll: the whole loop sits in one try, and the
\* first cycle without growth leaves it
AutoScrollCycle(h, ok) ==
    /\ s_pc = "loop" /\ s_who = "auto"
    /\ cycle < AUTO_SCROLL_CAP
    /\ IF ~ok
       THEN s_pc' = "broken" /\ UNCHANGED <<cycle, last_h, stable>>
       ELSE /\ stable' = stable_next(h, last_h, stable)
            /\ cycle' = cycle + 1
            /\ IF h <= last_h
               THEN s_pc' = "done" /\ last_h' = last_h
               ELSE /\ last_h' = h
                    /\ s_pc' = IF cycle' = AUTO_SCROLL_CAP THEN "done" ELSE "loop"
    /\ UNCHANGED s_who
    /\ UNCHANGED <<shopVars, mergeVars, dasmaVars, calcVars, visitVars, asyncVars>>

ScrollNext ==
    \/ \E h \in 0..MaxHeight : \E e, w \in BOOLEAN : WalkScrollCycle(h, e, w)
    \/ \E h \in 0..MaxHeight : \E ok \in BOOLEAN : AutoScrollCycle(h, ok)

\* ===================================================== product-page fallback
\* The visits of the primary scraper to product pages, one category's worth,
\* run on their own: what they do to rows is page_rows above; here are the
\* auxiliary pages they open and close.

\* most product links collected on one category page
MaxLinks == 3
\* list(product_links)[:60], scaled down
VISIT_CAP == 2

VisitIdle ==
    /\ v_pc = "idle" /\ v_found_any = FALSE /\ v_links = 0 /\ v_visits = 0 /\ v_open = 0
    /\ d_pending = NoPending

\* after the card selectors; links are collected only `if not found_any`
VisitInit ==
    /\ v_pc = "links" /\ v_found_any \in BOOLEAN
    /\ v_links = 0 /\ v_visits = 0 /\ v_open = 0
    /\ d_pending = NoPending

\* the loop goes on while fewer than min(len(product_links), 60) pages were
\* gone to
more_visits(visits, links) ==
    visits < (IF links < VISIT_CAP THEN links ELSE VISIT_CAP)

\* product_links = set(); if not found_any: collect the links
CollectLinks(n) ==
    /\ v_pc = "links"
    /\ v_links' = IF v_found_any THEN 0 ELSE n
    /\ v_pc' = IF more_visits(0, v_links') THEN "new_page" ELSE "done"
    /\ UNCHANGED <<v_found_any, v_visits, v_open>>
    /\ UNCHANGED <<shopVars, mergeVars, dasmaVars, calcVars, scrollVars, asyncVars>>

\* prod = await ctx.new_page(): outside the try
NewPage(ok) ==
    /\ v_pc = "new_page"
    /\ IF ok
       THEN v_open' = v_open + 1 /\ v_visits' = v_visits + 1 /\ v_pc' = "visit"
       ELSE v_pc' = "raised" /\ UNCHANGED <<v_open, v_visits>>
    /\ UNCHANGED <<v_found_any, v_links>>
    /\ UNCHANGED <<shopVars, mergeVars, dasmaVars, calcVars, scrollVars, asyncVars>>

\* variant: a visit that raises goes on to the next page without closing
VisitNoFinally(ok) ==
    /\ v_pc = "visit"
    /\ v_pc' = IF ok THEN "close"
               ELSE IF more_visits(v_visits, v_links) THEN "new_page" ELSE "done"
    /\ UNCHANGED <<v_found_any, v_links, v_visits, v_open>>
    /\ UNCHANGED <<shopVars, mergeVars, dasmaVars, calcVars, scrollVars, asyncVars>>

\* the try body: goto, extraction, rows.append; except Exception only warns;
\* either way the finally clause comes next
Visit(ok) ==
    /\ v_pc = "visit"
    /\ v_pc' = "close"
    /\ UNCHANGED <<v_found_any, v_links, v_visits, v_open>>
    /\ UNCHANGED <<shopVars, mergeVars, dasmaVars, calcVars, scrollVars, asyncVars>>

\* finally: await prod.close(); an exception of close() leaves scrape()
ClosePage(ok) ==
    /\ v_pc = "close"
    /\ IF ok
       THEN /\ v_open' = v_open - 1
            /\ v_pc' = IF more_visits(v_visits, v_links) THEN "new_page" ELSE "done"
       ELSE v_pc' = "raised" /\ UNCHANGED v_open
    /\ UNCHANGED <<v_found_any, v_links, v_visits>>
    /\ UNCHANGED <<shopVars, mergeVars, dasmaVars, calcVars, scrollVars, asyncVars>>

VisitNext ==
    \/ \E n \in 0..MaxLinks : CollectLinks(n)
    \/ \E ok \in BOOLEAN : NewPage(ok)
    \/ \E ok \in BOOLEAN : Visit(ok)
    \/ \E ok \in BOOLEAN : ClosePage(ok)

\* ================================================================ the system
\* A run of the repository is a run of one of its three programs, or a
\* series of direct calls of their functions.
vars == <<shopVars, mergeVars, dasmaVars, calcVars, extraVars>>

ShopIdle ==
    /\ pc = "idle"
    /\ args = [allow_no_price |-> FALSE, debug |-> FALSE, max_dom_nodes |-> MaxNodes,
               start_page |-> <<>>, end_page |-> <<>>, stagnant_limit |-> 1]
    /\ attempt = 1
    /\ handler_on = FALSE
    /\ products = <<>>
    /\ seen = {}
    /\ first_api_url = NoUrl
    /\ break_reason = None
    /\ i = 0 /\ retries = 0 /\ stagnant = 0
    /\ page_idx = 0 /\ stagnant_rounds = 0 /\ total_before = 0
    /\ pre_dom_total = 0
    /\ escaped = FALSE
    /\ written = FALSE
    /\ out_csv = <<>>
    /\ html_snap = FALSE
    /\ obs = <<>>
    /\ api_log = <<>>
    /\ api_contrib = 0
    /\ sleep_for = 0
    /\ sel = SelIdle
    /\ api_ran = FALSE

Init ==
    \/ ShopInit /\ MergeIdle /\ DasmaIdle /\ CalcIdle /\ ScrollIdle /\ VisitIdle
    \/ ShopIdle /\ MergeInit /\ DasmaIdle /\ CalcIdle /\ ScrollIdle /\ VisitIdle
    \/ ShopIdle /\ MergeIdle /\ DasmaInit /\ CalcIdle /\ ScrollIdle /\ VisitIdle
    \/ ShopIdle /\ MergeIdle /\ DasmaIdle /\ CalcInit /\ ScrollIdle /\ VisitIdle
    \/ ShopIdle /\ MergeIdle /\ DasmaIdle /\ CalcIdle /\ ScrollInit /\ VisitIdle
    \/ ShopIdle /\ MergeIdle /\ DasmaIdle /\ CalcIdle /\ ScrollIdle /\ VisitInit

Next == ShopNext \/ MergeNext \/ DasmaNext \/ CalcNext \/ ScrollNext \/ VisitNext

Spec == Init /\ [][Next]_vars

\* The same, with the primary scraper started again on the data directory
\* of its earlier runs.
NextRuns == Next \/ DasmaRerun

SpecRuns == Init /\ [][NextRuns]_vars

\* The primary scraper with its callbacks suspending at response.json().
InitAsync == ShopIdle /\ MergeIdle /\ DasmaInit /\ CalcIdle /\ ScrollIdle /\ VisitIdle

NextAsync ==
    \/ DasmaNext
    \/ \E r \in AsyncResponses : CaptureStart(r)
    \/ \E r \in AsyncResponses : \E f \in BOOLEAN : CaptureResume(r, f)

SpecAsync == InitAsync /\ [][NextAsync]_vars


\* ------------------------------------------------------------------ claims
RECURSIVE TrailingZeros(_)
TrailingZeros(log) ==
    IF log = <<>> THEN 0
    ELSE IF log[Len(log)].added # 0 THEN 0
    ELSE 1 + TrailingZeros(SubSeq(log, 1, Len(log) - 1))

Kept(p) == p.name # "" /\ (p.price # NoneNum \/ args.allow_no_price)

\* C1: the API page loop halts for stagnation only after stagnant_limit
\* consecutive pages that appended no record, and requests no page once
\* that many have occurred.
C1_StagnationExactlyN ==
    /\ (pc = "api_done" /\ break_reason = "api-stagnation")
          => TrailingZeros(api_log) >= args.stagnant_limit
    /\ pc = "api_fetch" => TrailingZeros(api_log) < args.stagnant_limit

\* C2: no two rows of the written CSV share the dedup key (id, url).
C2_NoDuplicateKeys ==
    written => \A j, k \in 1..Len(out_csv) :
                  j # k => Key(out_csv[j]) # Key(out_csv[k])

\* C2 witness: the CSV was written from a list that held two keepable
\* records with one key.
C2_Witness ==
    /\ written
    /\ \E j, k \in 1..Len(products) :
          j < k /\ Key(products[j]) = Key(products[k]) /\ Kept(products[j]) /\ Kept(products[k])

\* C3: the written record of a key carries the best price among the records
\* observed for that key (priced over unpriced, lower over higher).
C3_LowerPriceWins ==
    written => \A k \in 1..Len(out_csv) : out_csv[k].price = obs[Key(out_csv[k])]

\* C7: whatever response or page is delivered, a record whose extraction
\* raises is skipped alone: no well-formed record of the same arrays is
\* lost, and no page whose body parsed is given up as failed.
C7_BadRecordSkippedAlone ==
    /\ (handler_on /\ pc \in CallbackPcs) =>
          \A r \in Responses : ~on_response(r, FALSE).lost
    /\ pc = "api_fetch" =>
          \A o \in FetchOutcomes :
              o.ok => ~api_merge(o).raised /\ ~LostRecords(o.data, api_merge(o).seen)
    /\ \A k \in 1..Len(api_log) : api_log[k].how # "merge_raise"

\* C9: a page given up on after its retries does not end the run; it adds
\* exactly one to the stagnation counter, and the next page of the window is
\* requested unless the limit is thereby reached.
C9_FailedPageCountsOnce ==
    [][(pc = "api_fetch" /\ Len(api_log') = Len(api_log) + 1
           /\ api_log'[Len(api_log')].how # "ok") =>
          /\ stagnant' = stagnant + 1
          /\ retries = MAX_RETRIES
          /\ pc' \in {"api_fetch", "api_done"}
          /\ (stagnant' < args.stagnant_limit /\ i < eff_end) =>
                (pc' = "api_fetch" /\ i' = i + 1 /\ retries' = 0)
          /\ (stagnant' >= args.stagnant_limit) =>
                (pc' = "api_done" /\ break_reason' = "api-stagnation")]_vars

\* C9 witness: the first page of the window was given up on and the second
\* one is being requested.
C9_Witness ==
    /\ pc = "api_fetch"
    /\ i = eff_start + 1
    /\ stagnant = 1
    /\ Len(api_log) = 1
    /\ api_log[1].how = "fetch_fail"

\* C10: no failed navigation ends a run, of the paginated or of the primary
\* scraper, before its CSV is written.
C10_NavFailureRecoverable ==
    /\ pc = "aborted" => written
    /\ d_pc = "aborted" => d_written

\* the rows of file f that get past the filters under key, and their prices
Group(f, key) == {k \in 1..Len(f) : Passes(f[k]) /\ norm_name(f[k].name) = key}
GroupPrices(f, key) == {to_float(f[k].price) : k \in Group(f, key)} \ {NoneNum}
Raw(r) == <<r.name, r.price, r.url, r.id>>
Rank(r) == Len(StripWs(r.url))

\* C4: after a run, every written row is the only one of its normalized
\* name; its price parses to the minimum parsed price of the rows read
\* under that name, min_price and max_price are that minimum and maximum
\* with two decimals, and merged_count is the number of those rows.
C4_CanonicalRowIsMinimum ==
    mpc = "done" =>
      /\ \A k \in 1..Len(csv_file) :
            LET o == csv_file[k]
                G == Group(file_in, norm_name(o.name))
                P == GroupPrices(file_in, norm_name(o.name))
            IN  /\ G # {}
                /\ to_float(o.price) = (IF P = {} THEN NoneNum ELSE Min(P))
                /\ o.min_price = (IF P = {} THEN "" ELSE Fmt2(Min(P)))
                /\ o.max_price = (IF P = {} THEN "" ELSE Fmt2(Max(P)))
                /\ o.merged_count = ToString(Cardinality(G))
      /\ \A j \in 1..Len(file_in) :
            Passes(file_in[j]) =>
              Cardinality({k \in 1..Len(csv_file) :
                              norm_name(csv_file[k].name) = norm_name(file_in[j].name)}) = 1

\* C4 witness: two rows of one name priced 105 and 99 were merged.
C4_Witness ==
    /\ mpc = "done" /\ runs = 1
    /\ \E k \in 1..Len(csv_file) :
          /\ csv_file[k].merged_count = "2"
          /\ to_float(csv_file[k].price) = 9900
          /\ csv_file[k].min_price = "99.00"
          /\ csv_file[k].max_price = "105.00"

\* C5: a run over the output of an earlier run writes as many rows as it
\* read, each with the merged_count its name already had.
C5_RerunKeepsMergedCount ==
    (mpc = "done" /\ runs >= 2) =>
      /\ Len(csv_file) = Len(file_in)
      /\ \A k \in 1..Len(csv_file) :
            \E j \in 1..Len(file_in) :
               /\ norm_name(file_in[j].name) = norm_name(csv_file[k].name)
               /\ file_in[j].merged_count = csv_file[k].merged_count

C8_CallbackNeverRaises ==
    /\ ~escaped /\ ~d_escaped
    /\ (handler_on /\ pc \in CallbackPcs) =>
          \A r \in Responses : \A f \in BOOLEAN :
              LET res == on_response(r, f)
              IN  /\ ~res.escaped
                  /\ \A k \in (Len(products) + 1)..Len(res.products) :
                        /\ DOMAIN res.products[k] = {"id", "name", "price", "url", "source"}
                        /\ res.products[k].name # "" /\ res.products[k].id # None
                        /\ Key(res.products[k]) \in res.seen
    /\ (d_listening /\ d_pc \in {"navigate", "cards"}) =>
          \A r \in DResponses : \A f \in BOOLEAN :
              LET res == _capture_response(r, safe_seg(d_cat), f)
              IN  /\ ~res.escaped
                  /\ \A k \in (Len(d_rows) + 1)..Len(res.rows) :
                        /\ DOMAIN res.rows[k] = {"name", "price", "size_value", "size_unit",
                                                 "unit_price", "product_url", "source"}
                        /\ res.rows[k].name # ""

\* C8 witness: the callback of the primary scraper caught an exception,
\* returned, and the rows it appended are in the list.
C8_Witness ==
    /\ d_listening
    /\ d_swallowed /\ ~d_escaped
    /\ d_rows # <<>>

\* C12: store selection is attempted at most twice; a verified attempt ends
\* it at once, a second attempt ends it whatever its outcome; from there
\* the only step is the registration of the capture callback, and from
\* there the navigation to the start view.
C12_StoreSelectionBounded ==
    /\ [](attempt \in {1, 2})
    /\ [](pc = "store" =>
            /\ ENABLED (StoreAttempt("verified") /\ pc' = "register" /\ attempt' = attempt)
            /\ \A o \in {"unverified", "raised"} :
                  ENABLED (StoreAttempt(o) /\ IF attempt = 1 THEN pc' = "store" /\ attempt' = 2
                                             ELSE pc' = "register"))
    /\ [][pc = "store" => pc' \in {"store", "register"}]_vars
    /\ [](pc = "register" => ENABLED Register)
    /\ [][pc = "register" => (pc' = "start_nav" /\ handler_on')]_vars
    /\ [](pc = "start_nav" => handler_on /\ \A ok \in BOOLEAN : ENABLED StartNav(ok))

\* C12 witness: the first attempt was not verified, a second one was made,
\* and the run is at the navigation to the start view with the callback
\* registered.
C12_Witness ==
    /\ pc = "start_nav"
    /\ attempt = 2
    /\ handler_on

\* C11: a run that ends with zero records has persisted an empty CSV together
\* with a page snapshot: waltermart_last_page.html in the primary scraper;
\* in the paginated scraper the CSV is empty (its snapshot is taken whenever
\* the page gives its content).
C11_EmptyRunLeavesSnapshot ==
    /\ (d_pc = "done" /\ d_rows = <<>>) => (d_written /\ d_csv = <<>> /\ d_snapshot)
    /\ (pc = "done" /\ products = <<>>) => (written /\ out_csv = <<>>)

\* C13: the CSV of either scraper, and the table of the primary scraper,
\* are written exactly once per run: only in the one step that follows the
\* closing of the session, from the deduplicated set, and every run that
\* ends has written each of them once.
C13_WrittenOnceAfterClose ==
    /\ [][(written' # written \/ out_csv' # out_csv) =>
            (pc = "closed" /\ ~handler_on /\ ~written /\ written' /\ pc' = "done"
             /\ out_csv' = csv_rows(products))]_vars
    /\ [][(d_csv' # d_csv \/ d_db' # d_db \/ d_inserts' > d_inserts \/ (d_written' /\ ~d_written)) =>
            (d_pc = "closed" /\ ~d_listening /\ ~d_written /\ d_written' /\ d_pc' = "done"
             /\ d_csv' = frame(d_rows) /\ d_db' = d_db \o frame(d_rows))]_vars
    /\ [](pc = "done" => written)
    /\ [](d_pc = "done" => (d_written /\ d_inserts = 1))

\* C14: in the paginated scraper with --allow-no-price off, no record of the
\* collected list and no row of the CSV is without a price; with it on,
\* every named record of the collected list, priced or not, has a row of
\* its key in the CSV once the CSV is written.
C14_PriceRequiredUnlessOverridden ==
    /\ ~args.allow_no_price =>
          /\ \A k \in 1..Len(products) : products[k].price # NoneNum
          /\ \A k \in 1..Len(out_csv) : out_csv[k].price # NoneNum
    /\ (args.allow_no_price /\ written) =>
          \A k \in 1..Len(products) :
              products[k].name # "" =>
                  \E j \in 1..Len(out_csv) : Key(out_csv[j]) = Key(products[k])

\* a run with the override on has written a CSV holding a row without a
\* price, taken from a record the capture or the API loop collected
C14_Witness ==
    /\ args.allow_no_price
    /\ written
    /\ \E j \in 1..Len(out_csv) : out_csv[j].price = NoneNum /\ out_csv[j].name # ""
    /\ \E k \in 1..Len(products) : products[k].price = NoneNum /\ products[k].source # "dom"

\* C15: whatever number of runs of the primary scraper has been completed,
\* no two rows of table waltermart_dasma have the same name.
C15_TableOneRowPerName ==
    \A j \in 1..Len(d_db) : \A k \in 1..Len(d_db) :
        j # k => d_db[j].name # d_db[k].name

\* C16: no row written by either scraper, to a CSV or to the table, has a
\* name that is empty after trimming.
C16_NoNamelessRowWritten ==
    /\ \A k \in 1..Len(out_csv) : Strip(out_csv[k].name) # ""
    /\ \A k \in 1..Len(d_csv) : Strip(d_csv[k].name) # ""
    /\ \A k \in 1..Len(d_db) : Strip(d_db[k].name) # ""

\* C17: every call of unit_price returns: null when the price, the size or
\* the unit is absent or the unit is none of kg, g, l, ml; price/size for kg
\* and l; price/(size/1000) for g and ml (centavos, rounded down), whatever
\* the size, zero included.
C17_UnitPriceReturns ==
    c_call = "unit_price" =>
        LET price == c_args[1]
            size_val == c_args[2]
            size_unit == c_args[3]
            present == price # NoneNum /\ size_val # NoneNum /\ size_unit # None
        IN  /\ c_result # Raised
            /\ ~present => c_result = NoneNum
            /\ (present /\ size_unit \notin {"kg", "l", "g", "ml"}) => c_result = NoneNum
            /\ (present /\ size_unit \in {"kg", "l"}) =>
                   (c_result * size_val <= price /\ price < (c_result + 1) * size_val)
            /\ (present /\ size_unit \in {"g", "ml"}) =>
                   (c_result * size_val <= price * 1000 /\ price * 1000 < (c_result + 1) * size_val)

\* C18: every row the primary scraper has appended carries the size parsed
\* from its own name and unit_price(price, size_value, size_unit) of its own
\* fields; unit_price is null whenever the price or the size is absent.
C18_UnitPriceDerived ==
    \A k \in 1..Len(d_rows) :
        LET r == d_rows[k]
        IN  /\ r.size_value = parse_size(r.name).val
            /\ r.size_unit = parse_size(r.name).unit
            /\ r.unit_price = unit_price(r.price, r.size_value, r.size_unit)
            /\ r.unit_price # Raised
            /\ (r.price = NoneNum \/ r.size_value = NoneNum \/ r.size_unit = None)
                   => r.unit_price = NoneNum

\* three rows with a unit price: one appended by the capture callback, the
\* others by the cards or product pages of both categories
C18_Witness ==
    /\ Len(d_rows) = 3
    /\ \A k \in 1..3 : d_rows[k].unit_price \notin {NoneNum, Raised}
    /\ \E k \in 1..3 : d_rows[k].source = UrlApi
    /\ \E k \in 1..3 : d_rows[k].source = CategoryUrl(1)
    /\ \E k \in 1..3 : d_rows[k].source = CategoryUrl(2)

\* the numeric values of a mapping under the flat keys and under pricing,
\* as the price resolution is described (in centavos)
NumericUnder(obj, keys) ==
    {IF k = "price_in_cents" THEN obj.price[k] ELSE 100 * obj.price[k] :
        k \in {c \in keys \cap DOMAIN obj.price : obj.price[c] >= 0}}
NumericUnderPricing(obj) ==
    IF ~obj.pricing.isdict THEN {}
    ELSE LET at == obj.pricing.at
             ks == {"current", "sale", "regular", "price"} \cap DOMAIN at
         IN  {100 * at[k].num : k \in {c \in ks : at[c].num >= 0}} \cup
             {100 * at[k].amount : k \in {c \in ks : at[c].num < 0 /\ at[c].amount >= 0}} \cup
             {100 * at[k].value : k \in {c \in ks : at[c].num < 0 /\ at[c].value >= 0}}

\* C19: the price resolution of either scraper returns the minimum of the
\* numeric values under its candidate keys (the cents-scaled key divided
\* by 100) and under current, sale, regular, price of pricing, numbers or
\* mappings with amount and value; null when there is none.
C19_PriceIsMinimumOfCandidates ==
    c_call \in {"_extract_price", "_find_price_fields"} =>
        LET obj == c_args[1]
            keys == IF c_call = "_find_price_fields" THEN PRICE_KEYS
                    ELSE {"price", "current_price", "sale_price", "regular_price",
                          "price_in_cents"}
            all == IF obj.isdict THEN NumericUnder(obj, keys) \cup NumericUnderPricing(obj)
                   ELSE {}
        IN  /\ all = {} => c_result = NoneNum
            /\ all # {} => (c_result \in all /\ \A x \in all : c_result <= x)

\* a mapping with price 105 and pricing.current 95 was resolved to 95
C19_Witness ==
    /\ c_call = "_find_price_fields"
    /\ c_args[1].isdict
    /\ "current" \in DOMAIN c_args[1].pricing.at
    /\ c_result = 9500

\* a payload of the claim: one array, at the top level or one level down,
\* of mappings that all have a name, a price and an id, the ids differing
NamedPricedDistinct(data, price_of(_)) ==
    /\ data.shape \in {"top", "nested1"}
    /\ data.items # <<>>
    /\ \A k \in 1..Len(data.items) :
          /\ data.items[k].isdict
          /\ data.items[k].name # ""
          /\ data.items[k].id # None
          /\ price_of(data.items[k]) # NoneNum
    /\ \A j \in 1..Len(data.items) : \A k \in 1..Len(data.items) :
          j # k => data.items[j].id # data.items[k].id

\* C20: an admitted response whose payload is one array of k named, priced
\* records with distinct ids makes the capture callback append exactly k
\* records when none of them was seen, and none when all of them were (as
\* after a first delivery in the same page or category).
C20_CaptureAppendsEachOnce ==
    /\ (handler_on /\ pc \in CallbackPcs) =>
          \A r \in Responses :
              (HasKeyword(r.url) /\ r.json_ok /\ NamedPricedDistinct(r.data, _find_price_fields)) =>
                  LET res == on_response(r, FALSE)
                      ids == {r.data.items[k].id : k \in 1..Len(r.data.items)}
                      seenIds == {key[1] : key \in seen}
                  IN  /\ ids \cap seenIds = {} =>
                             /\ Len(res.products) = Len(products) + Len(r.data.items)
                             /\ ids \subseteq {key[1] : key \in res.seen}
                      /\ (\A k \in 1..Len(r.data.items) : ItemKey(r.data.items[k]) \in seen) =>
                             res.products = products
    /\ (d_listening /\ d_pc \in {"navigate", "cards"}) =>
          \A r \in DResponses :
              (r.ctype_json /\ r.json_ok
                 /\ r.url.subs \cap {"freshop", "products", "search", "department",
                                     "category", "aisle"} # {}
                 /\ NamedPricedDistinct(r.data, _extract_price)) =>
                  LET res == _capture_response(r, safe_seg(d_cat), FALSE)
                      keys == {<<r.data.items[k].id, safe_seg(d_cat)>> : k \in 1..Len(r.data.items)}
                  IN  /\ keys \cap d_seen = {} =>
                             /\ Len(res.rows) = Len(d_rows) + Len(r.data.items)
                             /\ keys \subseteq res.seen
                      /\ keys \subseteq d_seen => res.rows = d_rows

\* C21: the merge utility overwrites the CSV it read only when the .bak file
\* holds the exact contents the CSV had before the overwrite.
C21_BackupBeforeOverwrite ==
    /\ mpc = "write" => bak_file = csv_file
    /\ mpc = "done" => bak_file = file_in

\* a link as the claim wants it stored: empty, or starting with the origin
EmptyOrAbsolute(l) == l = EmptyStr \/ StartsWithHttp(l)

\* C22: every link of a collected or written record, of either scraper and
\* whichever path appended it, is empty or absolute.
C22_LinksEmptyOrAbsolute ==
    /\ \A k \in 1..Len(products) : EmptyOrAbsolute(products[k].url)
    /\ \A k \in 1..Len(out_csv) : EmptyOrAbsolute(out_csv[k].url)
    /\ \A k \in 1..Len(d_rows) : EmptyOrAbsolute(d_rows[k].product_url)
    /\ \A k \in 1..Len(d_csv) : EmptyOrAbsolute(d_csv[k].product_url)

C24_VerifiedOnlyAfterCardAndCTA ==
    sel.state = "verified" => sel.opened /\ sel.found /\ sel.clicked


\* C25: the capture channel admits a response only if its content type is
\* data-structured and its URL holds a topic keyword; a response failing either
\* test never changes the collected set or the dedup-key set (both scrapers).
C25_OnlyAdmittedResponsesCollect ==
    /\ (handler_on /\ pc \in CallbackPcs) =>
          \A resp \in Responses, io_fails \in BOOLEAN :
             ~(resp.ctype_json /\ HasKeyword(resp.url)) =>
                /\ on_response(resp, io_fails).products = products
                /\ on_response(resp, io_fails).seen = seen
    /\ (d_listening /\ d_pc \in {"navigate", "cards"}) =>
          \A resp \in DResponses, io_fails \in BOOLEAN :
             ~(resp.ctype_json /\ resp.url.subs \cap {"freshop", "products", "search",
                                   "department", "category", "aisle"} # {}) =>
                /\ _capture_response(resp, safe_seg(d_cat), io_fails).rows = d_rows
                /\ _capture_response(resp, safe_seg(d_cat), io_fails).seen = d_seen


\* C26: if at any point of a run an admitted response's URL matches the
\* data-endpoint predicate, the paginated fetcher is run in that run; if no
\* seed is ever observed, no direct paginated request is issued.  A response
\* that sets the seed and adds records was admitted and parsed; the fetcher can
\* still start only while scrape() has not passed `if first_api_url:`.
C26_SeedStartsFetcher ==
    /\ [](api_ran => first_api_url # NoUrl)
    /\ [](pc = "api_fetch" => api_ran)
    /\ [][(first_api_url = NoUrl /\ first_api_url' # NoUrl /\ Len(products') > Len(products))
            => (pc \in {"start_nav", "seed"})]_vars


\* C27: the seed is always the URL of an admitted response, one that is
\* data-structured and parsed successfully; a response that is not
\* data-structured or fails to parse never becomes the seed; once set, the seed
\* is the first such URL and is never replaced.
C27_SeedIsFirstAdmittedUrl ==
    /\ []((handler_on /\ pc \in CallbackPcs) =>
            \A resp \in Responses, io_fails \in BOOLEAN :
               on_response(resp, io_fails).first_api_url # first_api_url =>
                  /\ resp.ctype_json /\ resp.json_ok
                  /\ first_api_url = NoUrl
                  /\ on_response(resp, io_fails).first_api_url = resp.url)
    /\ [][first_api_url # NoUrl => first_api_url' = first_api_url]_vars


WalkPcs == {"dom_goto", "dom_scroll"}

\* C28: the DOM walk runs across the same page window after the fetcher phase,
\* whatever the fetcher's outcome (no seed, pages fetched, failures,
\* stagnation), and always after the fetcher's loop, never before it or
\* interleaved with it.  Stated for the runs that reach the fetcher phase: the
\* end of that phase (pc = "api_done") always leads into the walk.
C28_WalkAfterFetcher ==
    /\ [](pc = "api_done" => ENABLED WalkStart)
    /\ [](pc = "api_fetch" => i \in eff_start..eff_end)
    /\ [](pc \in WalkPcs => page_idx \in eff_start..eff_end)
    /\ [][pc = "api_done" => (pc' = "dom_goto" /\ page_idx' = eff_start)]_vars
    /\ [][(pc' \in WalkPcs) => (pc \in ({"api_done"} \cup WalkPcs))]_vars
    /\ [][(pc \in WalkPcs) => (pc' \notin {"seed", "api_fetch", "api_done"})]_vars

C28_Witness ==
    /\ pc = "dom_scroll" /\ page_idx = eff_start
    /\ api_ran /\ break_reason = "api-stagnation"


\* C29: the last DOM pass on the start view is performed if and only if the
\* collected set is still empty after capture, fetcher and DOM walk, and at
\* most once per run; while the collected set is non-empty no collected record
\* is dropped or replaced.
C29_FinalPassOnlyWhenEmpty ==
    /\ [][(pc \in WalkPcs /\ pc' \notin WalkPcs) =>
             ((pc' = "fb_goto") <=> (products' = <<>>))]_vars
    /\ [][(pc' = "fb_goto") => (pc \in (WalkPcs \cup {"fb_goto"}))]_vars
    /\ [][(pc \in {"fb_goto", "fb_collect"}) =>
             (pc' \notin (WalkPcs \cup {"seed", "api_fetch", "api_done"}))]_vars
    /\ [][(products # <<>>) =>
             (/\ Len(products') >= Len(products)
              /\ SubSeq(products', 1, Len(products)) = products)]_vars


\* the elements of the first locator, in priority order, that matched any
FirstMatch(matches) ==
    IF \A k \in 1..Len(matches) : matches[k] = <<>> THEN <<>>
    ELSE matches[CHOOSE k \in 1..Len(matches) :
                    matches[k] # <<>> /\ \A j \in 1..(k - 1) : matches[j] = <<>>]

\* C30: the DOM harvester tries its locators in fixed priority order and stops
\* at the first locator that matches at least one element, even if extraction
\* from the matched elements yields no record: only the elements of that
\* locator are extracted (both scrapers).
C30_StopsAtFirstMatchingLocator ==
    /\ pc \in {"dom_scroll", "fb_collect"} =>
          \A ms \in NodeMatches : _dom_collect(ms) = dom_loop(FirstMatch(ms), 0)
    /\ d_pc = "cards" =>
          \A ms \in CardMatches :
             card_selectors(ms, d_rows, CategoryUrl(d_cat)) =
                card_rows(FirstMatch(ms), d_rows, CategoryUrl(d_cat))


\* the elements the loop of _dom_collect gets to before `if idx >= max_nodes`
nodes_inspected(matches) ==
    SubSeq(query_nodes(matches), 1,
           IF Len(query_nodes(matches)) < args.max_dom_nodes
           THEN Len(query_nodes(matches)) ELSE args.max_dom_nodes)

\* C31: for every page and every number of matched elements the DOM harvester
\* inspects at most the cap of elements (max_dom_nodes in the paginated
\* scraper, the card cap in the primary scraper), the inspected elements are
\* the first ones in match order, and one page's DOM pass never returns more
\* records than the cap.
C31_DomPassCapped ==
    /\ pc \in {"dom_scroll", "fb_collect"} =>
          \A ms \in NodeMatches :
             /\ Len(nodes_inspected(ms)) <= args.max_dom_nodes
             /\ _dom_collect(ms) = _dom_collect(<<nodes_inspected(ms)>>)
             /\ Len(_dom_collect(ms)) <= args.max_dom_nodes
    /\ d_pc = "cards" =>
          \A ms \in CardMatches :
             LET url == CategoryUrl(d_cat)
             IN  /\ Len(cards_inspected(ms, d_rows, url)) <= CARD_CAP
                 /\ cards_inspected(ms, d_rows, url) = capped(FirstMatch(ms))
                 /\ Len(card_selectors(ms, d_rows, url)) - Len(d_rows) <= CARD_CAP


ScrollCap == IF s_who = "walk" THEN DEFAULT_SCROLL_CYCLES ELSE AUTO_SCROLL_CAP
\* cycles in a row without growth after which the loop is left
FlatLimit == IF s_who = "walk" THEN 3 ELSE 1

\* the loop never goes past the cap or the limit, goes on below them, and is
\* left by its own conditions only at one of them
ScrollLoopStops(limit) ==
    /\ s_pc # "idle" => (cycle <= ScrollCap /\ stable <= limit)
    /\ s_pc = "loop" => (cycle < ScrollCap /\ stable < limit /\ ENABLED ScrollNext)
    /\ s_pc = "done" => (stable = limit \/ cycle = ScrollCap)

\* every step of the loop is one more cycle or leaves it, and a cycle in
\* which the height grew resets the count
ScrollCycleCounts ==
    /\ (s_pc = "loop") => (cycle' = cycle + 1 \/ s_pc' # "loop")
    /\ (s_pc = "loop" /\ cycle' = cycle + 1 /\ last_h' > last_h) => (stable' = 0)

\* C32 as stated: the per-page scroll-and-wait loop always terminates; it
\* performs at most the hard cap of cycles and stops as soon as the page height
\* has failed to grow for 3 consecutive cycles, whichever comes first; a cycle
\* in which the height grew resets the no-growth count to zero.
C32_ScrollStopsAfterThreeFlat ==
    [](ScrollLoopStops(3)) /\ [][ScrollCycleCounts]_vars

\* C32, amended: as above, with 3 consecutive cycles without growth in the
\* loop of _walk_pages and a single cycle without growth in the auto-scroll
\* of the primary scraper.
C32_ScrollStopsAtFlatLimit ==
    [](ScrollLoopStops(FlatLimit)) /\ [][ScrollCycleCounts]_vars

C32_Witness ==
    /\ s_pc = "done" /\ s_who = "walk"
    /\ stable = 3 /\ cycle = DEFAULT_SCROLL_CYCLES - 1


\* C33: in the product-detail fallback of the primary scraper at most one
\* auxiliary page is open at every moment: each is closed before the next is
\* opened, and closed on every outcome of the visit; at most 60 visits (the
\* cap) are made per category, and only when card scraping found nothing.
C33_OneAuxiliaryPage ==
    /\ [](v_open \in 0..1)
    /\ [](v_pc = "new_page" => v_open = 0)
    /\ [](v_pc \in {"visit", "close"} => v_open = 1)
    /\ [](v_pc = "done" => v_open = 0)
    /\ [](v_pc = "close" => ENABLED ClosePage(TRUE))
    /\ [](v_visits <= VISIT_CAP /\ v_visits <= v_links)
    /\ [](v_found_any => v_visits = 0)
    /\ [][(v_pc = "visit") => (v_pc' = "close")]_vars
    /\ [][(v_open' > v_open) => (v_open = 0 /\ v_pc = "new_page")]_vars

C33_Witness ==
    /\ v_pc = "done" /\ v_links = MaxLinks
    /\ v_visits = VISIT_CAP /\ v_open = 0


\* the rows the capture callback appended: their source is a response URL
IsCaptureRow(r) == r.source.subs # {}
CaptureRows == SelectSeq(d_rows, IsCaptureRow)

\* C34: under every interleaving of the capture callbacks of the primary
\* scraper (which suspend while awaiting the response body) with each other
\* and with the main traversal, the membership test, the append and the key
\* insertion of one record run with no other append in between: every row the
\* callback appends comes with one new (id, category) key, so no two such rows
\* share a key.
C34_CaptureAppendsAtomic ==
    /\ [](Len(CaptureRows) = Cardinality(d_seen))
    /\ [][/\ d_seen \subseteq d_seen'
          /\ Len(CaptureRows') - Len(CaptureRows) = Cardinality(d_seen' \ d_seen)]_vars

C34_Witness ==
    /\ d_pc = "cards"
    /\ \E r \in AsyncResponses : d_pending[r] = 2 /\ r.json_ok /\ r.data.items = <<ItemA1>>
    /\ <<ItemA1.id, safe_seg(d_cat)>> \in d_seen


\* C35: for every start/end page input (absent, zero, negative, end smaller
\* than start) the effective window satisfies 1 <= eff_start <= eff_end; the
\* Paginated Fetcher and the DOM walk each start at eff_start, stay inside
\* [eff_start, eff_end] and move from one index to the next one only, so the
\* indices of a phase are strictly increasing and none comes twice (the
\* attempts of one fetcher page stay on its index).
C35_PageWindow ==
    /\ [](pc # "idle" => (1 <= eff_start /\ eff_start <= eff_end))
    /\ [](pc = "api_fetch" => (eff_start <= i /\ i <= eff_end))
    /\ [](pc \in WalkPcs => (eff_start <= page_idx /\ page_idx <= eff_end))
    /\ [][(pc # "api_fetch" /\ pc' = "api_fetch") => (i' = eff_start)]_vars
    /\ [][(pc = "api_fetch" /\ pc' = "api_fetch") =>
             (\/ i' = i + 1 /\ retries' = 0
              \/ i' = i /\ retries' \in {retries, retries + 1})]_vars
    /\ [][(pc \notin WalkPcs /\ pc' \in WalkPcs) => (page_idx' = eff_start)]_vars
    /\ [][(pc \in WalkPcs /\ pc' \in WalkPcs) =>
             (page_idx' = page_idx \/ page_idx' = page_idx + 1)]_vars
    /\ [][(pc = "dom_scroll" /\ pc' = "dom_goto") => (page_idx' = page_idx + 1)]_vars
    /\ [][(pc \in WalkPcs /\ pc' = "dom_scroll") => (page_idx' = page_idx)]_vars

C35_Witness ==
    /\ args.start_page = <<0>> /\ args.end_page = <<-1>>
    /\ pc = "dom_scroll" /\ page_idx = 1 /\ api_ran


\* a page of the DOM walk is entered: the first one, or the one after a page
\* that was collected or could not be navigated to
VisitStarts ==
    /\ pc' = "dom_goto"
    /\ pc \notin WalkPcs \/ page_idx' # page_idx

\* C36: in the DOM walk a page counts as stagnant exactly when the collected
\* set did not grow during that page's visit or its navigation failed: the
\* growth of a page is measured from the size of the set when its visit
\* starts, so records the capture callback appends while the page loads or
\* scrolls reset the counter even if the DOM pass adds nothing, a failed
\* navigation adds one, and the walk never goes on with the counter at the
\* stagnation limit.
C36_StagnantIffNoGrowthInVisit ==
    /\ [][VisitStarts => (total_before' = Len(products'))]_vars
    /\ [][(pc = "dom_scroll" /\ VisitStarts) =>
             (stagnant_rounds' = IF Len(products') = total_before
                                 THEN stagnant_rounds + 1 ELSE 0)]_vars
    /\ [][(pc = "dom_goto" /\ VisitStarts) => (stagnant_rounds' = stagnant_rounds + 1)]_vars
    /\ [](pc \in WalkPcs => stagnant_rounds < args.stagnant_limit)


\* C37: in the Paginated Fetcher the stagnation counter is incremented for a
\* page only if that page contributed no new record to the collected set
\* across all its attempts, and every page that contributed at least one new
\* record resets it to zero.
C37_StagnantOnlyForEmptyPages ==
    [][(pc = "api_fetch" /\ Len(api_log') = Len(api_log) + 1) =>
          LET page == api_log'[Len(api_log')]
          IN  /\ (stagnant' > stagnant) => (page.added = 0)
              /\ (page.added > 0) => (stagnant' = 0)]_vars

====
